---- MODULE Spec2Model ----
(***************************************************************************)
(* A model of the session-aware project server of remotion-mcp-app:        *)
(* the session store (a JavaScript Map kept in insertion order, capped at  *)
(* MAX_SESSION_PROJECTS records) and the project resolver                  *)
(* (resolveProjectInput with deleteFilesFromMap and normalizeVirtualPath). *)
(*                                                                         *)
(* Encodings.  A JavaScript string that the code takes apart (a file path) *)
(* is a sequence of one-character strings; a string the code only compares *)
(* is a TLA+ string.  An optional value is a sequence of length 0          *)
(* (undefined/null) or 1 (the value).  A plain object used as a dictionary *)
(* is a function from its own keys to their values; a Map is a sequence of *)
(* [key, value] records in insertion order.                                *)
(***************************************************************************)
EXTENDS Integers, Sequences, FiniteSets, TLC

VARIABLES
    sessionProjects,  \* the module-level Map sessionId -> SessionProjectState
    lastOp,           \* the store call that ran last: the Map before, the result
    clock,            \* history: number of store calls made so far
    lastRemember,     \* history: clock of the last remember that stored an id
    lastUse,          \* history: clock of the last remember or get of an id
    input,            \* the CreateVideoRequest given to resolveProjectInput
    previousProject,  \* the previous project given to resolveProjectInput
    resolved,         \* what resolveProjectInput returned (undefined before)
    importFiles,      \* the file map given to resolveVirtualImport
    importPath,       \* the import specifier given to resolveVirtualImport
    importer,         \* the path of the importing file
    resolvedFilePath, \* what resolveVirtualImport returned, once called
    compileFiles,     \* the files given to compileProjectBundle, as entries
    compileEntry,     \* the entryFile given to compileProjectBundle
    compileResult,    \* how compileProjectBundle ended, once called
    inflight,         \* the tool calls suspended at `await compileProjectBundle`
    handled,          \* number of tool calls the server has started
    lastEvent,        \* history: what the last handler step did
    runtimeGlobal,    \* the widget's globalThis[RUNTIME_PACKAGE_GLOBAL]
    widgetData,       \* the project data the widget parsed from its props
    compiled,         \* what compileBundle returned for that data's bundle
    evaluations,      \* history: what each evaluated bundle's shims exported
    playerProps,      \* the inputProps the widget gives the Player
    givenPath,        \* the filePath given to normalizeVirtualPath
    normalizedPath,   \* what normalizeVirtualPath returned, once called
    heap,             \* the file-map objects allocated so far, by reference
    storedFiles,      \* the reference held by the session's stored record
    updates,          \* number of update_video calls made on the heap
    lastUpdate,       \* history: what the last of those calls did
    host,             \* what useWidget gave the widget at its last render
    prevRef,          \* the widget's prevRef.current
    rendered,         \* what the last render returned (undefined before)
    resolvedMeta,     \* the widget's resolvedMeta state
    calculations,     \* the calculateMetadata promises not yet settled
    metaOrigin        \* history: the project whose result set each field

vars == <<sessionProjects, lastOp, clock, lastRemember, lastUse,
          input, previousProject, resolved,
          importFiles, importPath, importer, resolvedFilePath,
          compileFiles, compileEntry, compileResult,
          inflight, handled, lastEvent,
          runtimeGlobal, widgetData, compiled, evaluations, playerProps,
          givenPath, normalizedPath, heap, storedFiles, updates, lastUpdate,
          host, prevRef, rendered, resolvedMeta, calculations, metaOrigin>>

storeVars == <<sessionProjects, lastOp, clock, lastRemember, lastUse>>
resolveVars == <<input, previousProject, resolved>>
importVars == <<importFiles, importPath, importer, resolvedFilePath>>
\* what the store's operations leave alone, and what the resolver does
compileVars == <<compileFiles, compileEntry, compileResult>>
serverVars == <<inflight, handled, lastEvent>>
widgetVars == <<runtimeGlobal, widgetData, compiled, evaluations, playerProps>>
pathVars == <<givenPath, normalizedPath>>
objectVars == <<heap, storedFiles, updates, lastUpdate>>
viewVars == <<host, prevRef, rendered, resolvedMeta, calculations, metaOrigin>>
notStoreVars == <<resolveVars, importVars, compileVars, serverVars, widgetVars,
    pathVars, objectVars, viewVars>>
notResolveVars == <<storeVars, importVars, compileVars, serverVars, widgetVars,
    pathVars, objectVars, viewVars>>
notImportVars == <<storeVars, resolveVars, compileVars, serverVars, widgetVars,
    pathVars, objectVars, viewVars>>
notCompileVars == <<storeVars, resolveVars, importVars, serverVars, widgetVars,
    pathVars, objectVars, viewVars>>
notWidgetVars == <<storeVars, resolveVars, importVars, compileVars, serverVars,
    pathVars, objectVars, viewVars>>

----------------------------------------------------------------------------
(* Optional values: undefined (or null) and a defined value.               *)

Undefined == <<>>
Some(v) == <<v>>
IsDefined(o) == o # <<>>
Val(o) == o[1]
\* a ?? b, with b a plain value
Coalesce(o, b) == IF IsDefined(o) THEN Val(o) ELSE b

----------------------------------------------------------------------------
(* Bounds of the model.                                                    *)

\* number of distinct non-empty session ids that make requests
NumSessions == 3
\* number of store calls in one behaviour
MaxOps == 5

\* The capacity of the store, scaled: the code's value is 250.  The model keeps
\* the code's comparison (size > MAX_SESSION_PROJECTS) and takes a capacity
\* that MaxOps calls can fill and overflow.
MAX_SESSION_PROJECTS == 2

IdTable == <<"s1", "s2", "s3", "s4", "s5", "s6", "s7", "s8">>
\* "" is the empty session id, which rememberSessionProject ignores
SessionIds == {""} \cup {IdTable[i] : i \in 1..NumSessions}

----------------------------------------------------------------------------
(* File paths and file maps.                                               *)

\* String.prototype.replace(/\\/g, "/")
ReplaceBackslashes(p) == [i \in 1..Len(p) |-> IF p[i] = "\\" THEN "/" ELSE p[i]]

\* String.prototype.replace(/^\/+/, "")
RECURSIVE StripLeadingSlashes(_)
StripLeadingSlashes(p) ==
    IF Len(p) > 0 /\ p[1] = "/" THEN StripLeadingSlashes(Tail(p)) ELSE p

\* the segments of a path between its "/" characters (empty ones included)
RECURSIVE SplitFrom(_, _, _, _)
SplitFrom(p, i, cur, acc) ==
    IF i > Len(p) THEN Append(acc, cur)
    ELSE IF p[i] = "/" THEN SplitFrom(p, i + 1, <<>>, Append(acc, cur))
    ELSE SplitFrom(p, i + 1, Append(cur, p[i]), acc)

SplitSegments(p) == SplitFrom(p, 1, <<>>, <<>>)

\* node's normalizeString(path, allowAboveRoot = false, "/"): an empty or "."
\* segment is skipped, ".." drops the last kept segment (nothing at the root)
RECURSIVE NormalizeSegments(_, _, _)
NormalizeSegments(segs, i, res) ==
    IF i > Len(segs) THEN res
    ELSE IF segs[i] = <<>> \/ segs[i] = <<".">>
         THEN NormalizeSegments(segs, i + 1, res)
    ELSE IF segs[i] = <<".", ".">>
         THEN NormalizeSegments(segs, i + 1,
                  IF Len(res) > 0 THEN SubSeq(res, 1, Len(res) - 1) ELSE res)
    ELSE NormalizeSegments(segs, i + 1, Append(res, segs[i]))

RECURSIVE JoinSegments(_)
JoinSegments(segs) ==
    IF Len(segs) = 0 THEN <<>>
    ELSE IF Len(segs) = 1 THEN segs[1]
    ELSE segs[1] \o <<"/">> \o JoinSegments(Tail(segs))

\* path.posix.normalize of an absolute path: a trailing "/" is kept unless
\* nothing but the root is left
posixNormalize(path) ==
    LET segs == NormalizeSegments(SplitSegments(path), 1, <<>>)
        trailingSeparator == path[Len(path)] = "/"
    IN  IF segs = <<>> THEN <<"/">>
        ELSE <<"/">> \o JoinSegments(segs)
                 \o (IF trailingSeparator THEN <<"/">> ELSE <<>>)

\* the result always starts with "/", so the throw is unreachable
normalizeVirtualPath(filePath) ==
    posixNormalize(<<"/">> \o StripLeadingSlashes(ReplaceBackslashes(filePath)))

PathA == <<"/", "a">>
PathB == <<"/", "b">>
PathC == <<"/", "c">>
\* "a": the same file as PathA once normalized, another key before
RawA == <<"a">>
\* "b/../a": a third spelling of PathA
DetourA == <<"b", "/", ".", ".", "/", "a">>
ToStringKey == <<"t", "o", "S", "t", "r", "i", "n", "g">>
ConstructorKey == <<"c", "o", "n", "s", "t", "r", "u", "c", "t", "o", "r">>

\* Every object literal has Object.prototype as its prototype, so the `in`
\* operator also answers true for the names that prototype defines.
ObjectPrototypeKeys ==
    { ToStringKey, ConstructorKey,
      <<"v", "a", "l", "u", "e", "O", "f">>,
      <<"_", "_", "p", "r", "o", "t", "o", "_", "_">> }

\* key in obj
JsIn(key, obj) == key \in DOMAIN obj \/ key \in ObjectPrototypeKeys

\* delete obj[key]: removes an own key, does nothing otherwise
JsDelete(obj, key) == [k \in DOMAIN obj \ {key} |-> obj[k]]

\* { ...a, ...b }
JsSpread(a, b) ==
    [k \in DOMAIN a \cup DOMAIN b |-> IF k \in DOMAIN b THEN b[k] ELSE a[k]]

EmptyMap == [k \in {} |-> "x"]

----------------------------------------------------------------------------
(* DEFAULT_META and project records.                                       *)

DEFAULT_META ==
    [title |-> "Untitled", compositionId |-> "Main", width |-> 1920,
     height |-> 1080, fps |-> 30, durationInFrames |-> 150]

\* "/src/Video.tsx"
DefaultEntryFile ==
    <<"/", "s", "r", "c", "/", "V", "i", "d", "e", "o", ".", "t", "s", "x">>

\* two SessionProjectState records, as compileAndRespondWithProject builds them
ProjectOne ==
    [title |-> "One", compositionId |-> "Main", width |-> 1280, height |-> 720,
     fps |-> 30, durationInFrames |-> 120, entryFile |-> PathA,
     files |-> (PathA :> "1" @@ PathB :> "2"),
     defaultProps |-> ("k" :> 1), inputProps |-> ("k" :> 2)]

ProjectTwo ==
    [title |-> "", compositionId |-> "Alt", width |-> 640, height |-> 360,
     fps |-> 24, durationInFrames |-> 48, entryFile |-> PathB,
     files |-> (RawA :> "5" @@ PathB :> "6"),
     defaultProps |-> EmptyMap, inputProps |-> ("j" :> 3)]

StoredProjects == {ProjectOne, ProjectTwo}

----------------------------------------------------------------------------
(* A JavaScript Map: entries in insertion order.                           *)

MapKeys(m) == [i \in 1..Len(m) |-> m[i].key]
MapKeySet(m) == {m[i].key : i \in 1..Len(m)}
MapHas(m, k) == k \in MapKeySet(m)
MapSize(m) == Len(m)
MapIndex(m, k) == CHOOSE i \in 1..Len(m) : m[i].key = k
\* Map.prototype.get: the value, or undefined
MapGet(m, k) == IF MapHas(m, k) THEN Some(m[MapIndex(m, k)].value) ELSE Undefined
\* Map.prototype.delete: the other entries keep their order
MapDelete(m, k) == SelectSeq(m, LAMBDA e : e.key # k)
\* Map.prototype.set: an existing key keeps its place, a new key goes last
MapSet(m, k, v) ==
    IF MapHas(m, k)
    THEN [i \in 1..Len(m) |-> IF m[i].key = k THEN [key |-> k, value |-> v] ELSE m[i]]
    ELSE Append(m, [key |-> k, value |-> v])

----------------------------------------------------------------------------
(* The session store.                                                      *)

\* mutant of EvictOldest: the loop stops one record too late
RECURSIVE EvictOldestOffByOne(_)
EvictOldestOffByOne(m) ==
    IF MapSize(m) > MAX_SESSION_PROJECTS + 1
    THEN EvictOldestOffByOne(MapDelete(m, MapKeys(m)[1]))
    ELSE m

\* mutant of EvictOldest: the loop deletes the last key of the Map
RECURSIVE EvictNewest(_)
EvictNewest(m) ==
    IF MapSize(m) > MAX_SESSION_PROJECTS
    THEN EvictNewest(MapDelete(m, MapKeys(m)[Len(m)]))
    ELSE m

\* the loop `while (sessionProjects.size > MAX_SESSION_PROJECTS)`: delete the
\* first key of the Map (keys().next().value, always a string here)
RECURSIVE EvictOldest(_)
EvictOldest(m) ==
    IF MapSize(m) > MAX_SESSION_PROJECTS
    THEN EvictOldest(MapDelete(m, MapKeys(m)[1]))
    ELSE m

\* mutant of Reinsert: set without the delete, so a present id keeps its place
ReinsertInPlace(m, sessionId, project) == MapSet(m, sessionId, project)

\* delete-then-set of rememberSessionProject
Reinsert(m, sessionId, project) ==
    MapSet(IF MapHas(m, sessionId) THEN MapDelete(m, sessionId) ELSE m,
           sessionId, project)

\* mutant of rememberSessionProject: a present id keeps the record it has
rememberOnlyAbsent(m, sessionId, project) ==
    IF sessionId = "" \/ MapHas(m, sessionId)
    THEN m
    ELSE EvictOldest(Reinsert(m, sessionId, project))

rememberSessionProject(m, sessionId, project) ==
    IF sessionId = ""
    THEN m
    ELSE EvictOldest(Reinsert(m, sessionId, project))

\* mutant of clearSessionProject: the whole Map is cleared
clearEverySession(m, sessionId) == <<>>

clearSessionProject(m, sessionId) == MapDelete(m, sessionId)

\* mutant of getSessionProject: an absent id is answered with the oldest record
getOldestWhenAbsent(m, sessionId) ==
    IF MapHas(m, sessionId) THEN MapGet(m, sessionId)
    ELSE IF m # <<>> THEN Some(m[1].value) ELSE Undefined

\* sessionProjects.get(sessionId) ?? null
getSessionProject(m, sessionId) == MapGet(m, sessionId)

NoOp ==
    [op |-> "none", id |-> "", project |-> Undefined, before |-> <<>>,
     store |-> <<>>, returned |-> Undefined]

Remember(sessionId, project) ==
    /\ clock < MaxOps
    /\ sessionProjects' = rememberSessionProject(sessionProjects, sessionId, project)
    /\ clock' = clock + 1
    /\ lastOp' = [op |-> "remember", id |-> sessionId, project |-> Some(project),
                  before |-> MapKeys(sessionProjects),
                  store |-> sessionProjects, returned |-> Undefined]
    /\ lastRemember' = IF sessionId = "" THEN lastRemember
                       ELSE [lastRemember EXCEPT ![sessionId] = clock + 1]
    /\ lastUse' = IF sessionId = "" THEN lastUse
                  ELSE [lastUse EXCEPT ![sessionId] = clock + 1]
    /\ UNCHANGED notStoreVars

Get(sessionId) ==
    /\ clock < MaxOps
    /\ clock' = clock + 1
    /\ lastOp' = [op |-> "get", id |-> sessionId, project |-> Undefined,
                  before |-> MapKeys(sessionProjects),
                  store |-> sessionProjects,
                  returned |-> getSessionProject(sessionProjects, sessionId)]
    /\ lastUse' = IF MapHas(sessionProjects, sessionId)
                  THEN [lastUse EXCEPT ![sessionId] = clock + 1]
                  ELSE lastUse
    /\ UNCHANGED <<sessionProjects, lastRemember>>
    /\ UNCHANGED notStoreVars

Clear(sessionId) ==
    /\ clock < MaxOps
    /\ sessionProjects' = clearSessionProject(sessionProjects, sessionId)
    /\ clock' = clock + 1
    /\ lastOp' = [op |-> "clear", id |-> sessionId, project |-> Undefined,
                  before |-> MapKeys(sessionProjects),
                  store |-> sessionProjects, returned |-> Undefined]
    /\ UNCHANGED <<lastRemember, lastUse>>
    /\ UNCHANGED notStoreVars

InitStore ==
    /\ sessionProjects = <<>>
    /\ lastOp = NoOp
    /\ clock = 0
    /\ lastRemember = [s \in SessionIds |-> 0]
    /\ lastUse = [s \in SessionIds |-> 0]

InitResolveIdle ==
    /\ input = Undefined
    /\ previousProject = Undefined
    /\ resolved = Undefined

InitImportIdle ==
    /\ importFiles = Undefined
    /\ importPath = Undefined
    /\ importer = Undefined
    /\ resolvedFilePath = Undefined

InitCompileIdle ==
    /\ compileFiles = Undefined
    /\ compileEntry = Undefined
    /\ compileResult = Undefined

\* no tool call has been made
NoEvent == [kind |-> "none"]

InitServerIdle ==
    /\ inflight = {}
    /\ handled = 0
    /\ lastEvent = NoEvent

\* no widget has been mounted
InitWidgetIdle ==
    /\ runtimeGlobal = <<>>
    /\ widgetData = <<>>
    /\ compiled = <<>>
    /\ evaluations = {}
    /\ playerProps = <<>>

\* normalizeVirtualPath has not been called
InitPathIdle ==
    /\ givenPath = Undefined
    /\ normalizedPath = Undefined

\* no file-map object has been allocated
InitObjectsIdle ==
    /\ heap = <<>>
    /\ storedFiles = Undefined
    /\ updates = 0
    /\ lastUpdate = Undefined

\* the widget has not rendered
InitViewIdle ==
    /\ host = Undefined
    /\ prevRef = Undefined
    /\ rendered = Undefined
    /\ resolvedMeta = Undefined
    /\ calculations = {}
    /\ metaOrigin = Undefined

StoreInit ==
    /\ InitStore /\ InitResolveIdle /\ InitImportIdle /\ InitCompileIdle
    /\ InitServerIdle /\ InitWidgetIdle /\ InitPathIdle /\ InitObjectsIdle
    /\ InitViewIdle

StoreNext ==
    \/ \E s \in SessionIds, p \in StoredProjects : Remember(s, p)
    \/ \E s \in SessionIds : Get(s)
    \/ \E s \in SessionIds : Clear(s)

StoreSpec == StoreInit /\ [][StoreNext]_vars

----------------------------------------------------------------------------
(* The project resolver.                                                   *)

cloneFileMap(value) == [k \in DOMAIN value |-> value[k]]
cloneRecord(value) == [k \in DOMAIN value |-> value[k]]

\* the inner loop of deleteFilesFromMap for one listed path: the candidates
\* are the raw path and, if different, its normalized form, in that order;
\* st is [files, removed]
DeleteCandidates(st, rawPath) ==
    LET afterRaw ==
            IF JsIn(rawPath, st.files)
            THEN [files |-> JsDelete(st.files, rawPath), removed |-> st.removed + 1]
            ELSE st
        normalized == normalizeVirtualPath(rawPath)
    IN  IF normalized # rawPath /\ JsIn(normalized, afterRaw.files)
        THEN [files |-> JsDelete(afterRaw.files, normalized),
              removed |-> afterRaw.removed + 1]
        ELSE afterRaw

RECURSIVE DeleteEach(_, _, _)
DeleteEach(st, deleteFiles, i) ==
    IF i > Len(deleteFiles) THEN st
    ELSE DeleteEach(DeleteCandidates(st, deleteFiles[i]), deleteFiles, i + 1)

\* the files object after the in-place deletions, and the returned count
deleteFilesFromMap(files, deleteFiles) ==
    DeleteEach([files |-> files, removed |-> 0], deleteFiles, 1)

\* mutant of SelectBase: previous is used whatever usePreviousProject says
SelectBaseAlways(usePreviousProject, previous) == previous

\* const base = usePreviousProject && previousProject ? previousProject : null
SelectBase(usePreviousProject, previous) ==
    IF usePreviousProject /\ IsDefined(previous) THEN previous ELSE Undefined

\* mutant of CombineFiles: replace mode behaves like merge mode
CombineFilesAlwaysMerge(inputFiles, base, updateMode) ==
    IF IsDefined(inputFiles)
    THEN IF IsDefined(base)
         THEN Some(JsSpread(cloneFileMap(Val(base).files), cloneFileMap(Val(inputFiles))))
         ELSE Some(cloneFileMap(Val(inputFiles)))
    ELSE IF IsDefined(base) THEN Some(cloneFileMap(Val(base).files))
    ELSE Undefined

\* mutant of CombineFiles: the spread operands are swapped, previous wins
CombineFilesPreviousWins(inputFiles, base, updateMode) ==
    IF IsDefined(inputFiles)
    THEN IF IsDefined(base) /\ updateMode = "merge"
         THEN Some(JsSpread(cloneFileMap(Val(inputFiles)), cloneFileMap(Val(base).files)))
         ELSE Some(cloneFileMap(Val(inputFiles)))
    ELSE IF IsDefined(base) THEN Some(cloneFileMap(Val(base).files))
    ELSE Undefined

\* mutant of CombineFiles: without request files, replace mode drops previous
CombineFilesReplaceDrops(inputFiles, base, updateMode) ==
    IF IsDefined(inputFiles)
    THEN IF IsDefined(base) /\ updateMode = "merge"
         THEN Some(JsSpread(cloneFileMap(Val(base).files), cloneFileMap(Val(inputFiles))))
         ELSE Some(cloneFileMap(Val(inputFiles)))
    ELSE IF IsDefined(base) /\ updateMode = "merge"
         THEN Some(cloneFileMap(Val(base).files))
    ELSE Undefined

\* the if / else-if that assigns `files`; an object is truthy even when empty
CombineFiles(inputFiles, base, updateMode) ==
    IF IsDefined(inputFiles)
    THEN IF IsDefined(base) /\ updateMode = "merge"
         THEN Some(JsSpread(cloneFileMap(Val(base).files), cloneFileMap(Val(inputFiles))))
         ELSE Some(cloneFileMap(Val(inputFiles)))
    ELSE IF IsDefined(base) THEN Some(cloneFileMap(Val(base).files))
    ELSE Undefined

\* mutant of PickField: the operands swapped, the previous value wins
PickFieldPreviousFirst(requested, base, field, default) ==
    IF IsDefined(base) THEN Val(base)[field]
    ELSE IF IsDefined(requested) THEN Val(requested) ELSE default

\* input.x ?? base?.x ?? default (every field of a stored project is defined)
PickField(requested, base, field, default) ==
    IF IsDefined(requested) THEN Val(requested)
    ELSE IF IsDefined(base) THEN Val(base)[field] ELSE default

\* input.x ? cloneRecord(input.x) : base ? cloneRecord(base.x) : {}
PickProps(requested, base, field) ==
    IF IsDefined(requested) THEN cloneRecord(Val(requested))
    ELSE IF IsDefined(base) THEN cloneRecord(Val(base)[field]) ELSE EmptyMap

resolveProjectInput(in, previous) ==
    LET usePreviousProject == Coalesce(in.usePreviousProject, TRUE)
        base == SelectBase(usePreviousProject, previous)
        updateMode == Coalesce(in.updateMode, "merge")
        combined == CombineFiles(in.files, base, updateMode)
        deletion ==
            IF IsDefined(combined)
            THEN deleteFilesFromMap(Val(combined), Coalesce(in.deleteFiles, <<>>))
            ELSE [files |-> EmptyMap, removed |-> 0]
        files == IF IsDefined(combined) THEN Some(deletion.files) ELSE Undefined
    IN  [project |->
            [title |-> PickField(in.title, base, "title", DEFAULT_META.title),
             compositionId |-> PickField(in.compositionId, base, "compositionId",
                                         DEFAULT_META.compositionId),
             width |-> PickField(in.width, base, "width", DEFAULT_META.width),
             height |-> PickField(in.height, base, "height", DEFAULT_META.height),
             fps |-> PickField(in.fps, base, "fps", DEFAULT_META.fps),
             durationInFrames |-> PickField(in.durationInFrames, base,
                                            "durationInFrames",
                                            DEFAULT_META.durationInFrames),
             entryFile |-> PickField(in.entryFile, base, "entryFile", DefaultEntryFile),
             files |-> files,
             defaultProps |-> PickProps(in.defaultProps, base, "defaultProps"),
             inputProps |-> PickProps(in.inputProps, base, "inputProps")],
         usedPreviousProject |-> IsDefined(base),
         updateMode |-> updateMode,
         deletedFiles |-> deletion.removed,
         canReusePreviousProject |-> usePreviousProject]

----------------------------------------------------------------------------
(* Calls of resolveProjectInput: the requests and previous projects tried. *)

FileChoices ==
    { Undefined, Some(EmptyMap), Some(PathB :> "3" @@ PathC :> "4"),
      Some(RawA :> "7"), Some(PathA :> "8") }
DeleteChoices ==
    { Undefined, Some(<<>>), Some(<<RawA>>), Some(<<PathB, PathB>>),
      Some(<<ToStringKey>>), Some(<<DetourA, PathC>>) }
ModeChoices == { Undefined, Some("merge"), Some("replace") }
UsePreviousChoices == { Undefined, Some(TRUE), Some(FALSE) }
PreviousChoices == { Undefined, Some(ProjectOne), Some(ProjectTwo) }

NoMeta ==
    [title |-> Undefined, compositionId |-> Undefined, width |-> Undefined,
     height |-> Undefined, fps |-> Undefined, durationInFrames |-> Undefined,
     entryFile |-> Undefined, defaultProps |-> Undefined, inputProps |-> Undefined]

MetaChoices ==
    [title : {Undefined, Some(""), Some("T")},
     compositionId : {Undefined, Some("Comp")},
     width : {Undefined, Some(0), Some(800)},
     height : {Undefined, Some(600)},
     fps : {Undefined, Some(60)},
     durationInFrames : {Undefined, Some(90)},
     entryFile : {Undefined, Some(PathC)},
     defaultProps : {Undefined, Some("d" :> 1)},
     inputProps : {Undefined, Some(EmptyMap)}]

Request(meta, files, deleteFiles, updateMode, usePreviousProject) ==
    [title |-> meta.title, compositionId |-> meta.compositionId,
     width |-> meta.width, height |-> meta.height, fps |-> meta.fps,
     durationInFrames |-> meta.durationInFrames, entryFile |-> meta.entryFile,
     defaultProps |-> meta.defaultProps, inputProps |-> meta.inputProps,
     files |-> files, deleteFiles |-> deleteFiles, updateMode |-> updateMode,
     usePreviousProject |-> usePreviousProject]

\* every combination of the file-related fields with no metadata given, and
\* every combination of metadata with a few of the file-related fields
Requests ==
    { Request(NoMeta, f, d, m, u) :
        f \in FileChoices, d \in DeleteChoices, m \in ModeChoices,
        u \in UsePreviousChoices }
    \cup
    { Request(meta, f, Undefined, m, u) :
        meta \in MetaChoices, f \in {Undefined, Some(PathA :> "8")},
        m \in ModeChoices, u \in UsePreviousChoices }

ResolveInit ==
    /\ InitStore
    /\ InitImportIdle
    /\ InitCompileIdle
    /\ InitServerIdle
    /\ InitWidgetIdle /\ InitPathIdle /\ InitObjectsIdle
    /\ InitViewIdle
    /\ input \in {Some(r) : r \in Requests}
    /\ previousProject \in PreviousChoices
    /\ resolved = Undefined

Resolve ==
    /\ IsDefined(input)
    /\ resolved = Undefined
    /\ resolved' = Some(resolveProjectInput(Val(input), previousProject))
    /\ UNCHANGED <<input, previousProject>>
    /\ UNCHANGED notResolveVars

ResolveNext == Resolve

ResolveSpec == ResolveInit /\ [][ResolveNext]_vars

----------------------------------------------------------------------------
(* Claims about the session store.                                         *)

KeysBefore == MapKeySet(sessionProjects)
KeysAfter == MapKeySet(sessionProjects')
\* the step just taken is a remember of a non-empty id
RememberStep == clock' = clock + 1 /\ lastOp'.op = "remember" /\ lastOp'.id # ""
\* the ids a remember step removed (the remembered id itself is never one)
EvictedByStep == KeysBefore \ KeysAfter

\* C1: after any sequence of remember, get and clear calls the store holds at
\* most MAX_SESSION_PROJECTS records.
C1_SizeBounded == MapSize(sessionProjects) <= MAX_SESSION_PROJECTS

\* a remember of a new id into a full store has just returned
C1_Witness ==
    /\ lastOp.op = "remember"
    /\ lastOp.id # ""
    /\ Len(lastOp.before) = MAX_SESSION_PROJECTS
    /\ lastOp.id \notin {lastOp.before[i] : i \in 1..Len(lastOp.before)}
    /\ MapSize(sessionProjects) = MAX_SESSION_PROJECTS

\* C2: a remember of a new id into a full store evicts exactly one record, the
\* one whose last remember is the oldest; the store then holds exactly
\* MAX_SESSION_PROJECTS records, the new id is present with the remembered
\* project, and every other record is retained unchanged.
C2_EvictsOldestRemembered ==
    [][ (/\ RememberStep
         /\ lastOp'.id \notin KeysBefore
         /\ MapSize(sessionProjects) = MAX_SESSION_PROJECTS)
        => /\ Cardinality(EvictedByStep) = 1
           /\ \A g \in EvictedByStep : \A o \in KeysBefore :
                  lastRemember[g] <= lastRemember[o]
           /\ MapSize(sessionProjects') = MAX_SESSION_PROJECTS
           /\ MapGet(sessionProjects', lastOp'.id) = lastOp'.project
           /\ KeysAfter = (KeysBefore \ EvictedByStep) \cup {lastOp'.id}
           /\ \A o \in KeysBefore \ EvictedByStep :
                  MapGet(sessionProjects', o) = MapGet(sessionProjects, o) ]_vars

\* a new id was remembered into a full store: the first id of the Map is gone
\* although it was read after the last use of an id that stays, and all the
\* other ids are still stored
C2_Witness ==
    /\ lastOp.op = "remember"
    /\ lastOp.id # ""
    /\ Len(lastOp.before) = MAX_SESSION_PROJECTS
    /\ lastOp.id \notin {lastOp.before[i] : i \in 1..Len(lastOp.before)}
    /\ MapHas(sessionProjects, lastOp.id)
    /\ MapSize(sessionProjects) = MAX_SESSION_PROJECTS
    /\ lastOp.before[1] \notin MapKeySet(sessionProjects)
    /\ \A i \in 2..Len(lastOp.before) :
           /\ lastOp.before[i] \in MapKeySet(sessionProjects)
           /\ lastRemember[lastOp.before[1]] < lastRemember[lastOp.before[i]]
    /\ \E i \in 2..Len(lastOp.before) :
           lastUse[lastOp.before[i]] < lastUse[lastOp.before[1]]

\* C3: a remember of an id that is already present replaces its record, leaves
\* the set of stored ids (and so the size) unchanged, leaves every other record
\* unchanged and makes the id the last one in eviction order; and whenever an
\* id is evicted, every id still stored was remembered after it, so a
\* re-remembered id goes only after all ids that were present at that moment
\* and have not been remembered again.
C3_RefreshOnRemember ==
    [][ /\ (RememberStep /\ lastOp'.id \in KeysBefore)
           => /\ KeysAfter = KeysBefore
              /\ MapSize(sessionProjects') = MapSize(sessionProjects)
              /\ MapGet(sessionProjects', lastOp'.id) = lastOp'.project
              /\ MapKeys(sessionProjects')[Len(sessionProjects')] = lastOp'.id
              /\ \A o \in KeysBefore \ {lastOp'.id} :
                     MapGet(sessionProjects', o) = MapGet(sessionProjects, o)
        /\ RememberStep
           => \A g \in EvictedByStep : \A o \in KeysAfter :
                  lastRemember'[o] > lastRemember'[g] ]_vars

\* the oldest id of a store of at least two ids was remembered again with a
\* different project
C3_Witness ==
    /\ lastOp.op = "remember"
    /\ Len(lastOp.before) >= 2
    /\ lastOp.before[1] = lastOp.id
    /\ MapKeys(sessionProjects)[Len(sessionProjects)] = lastOp.id
    /\ lastRemember[lastOp.id] = clock
    /\ clock >= 3

\* C4 (as claimed): eviction is least-recently-used, a use being a read by
\* getSessionProject or a write by rememberSessionProject: the id a remember
\* evicts is one whose last use is the oldest of all ids stored before it.
C4_EvictsLeastRecentlyUsed ==
    [][ RememberStep
        => \A g \in EvictedByStep : \A o \in KeysBefore :
               lastUse[g] <= lastUse[o] ]_vars

----------------------------------------------------------------------------
(* Claims about resolveProjectInput.  They are stated on the call's        *)
(* arguments (input, previousProject) and its result (resolved).           *)

Resolved == IsDefined(resolved)
Result == Val(resolved)
Req == Val(input)
\* previous is present and the request permits its use
PreviousUsed ==
    IsDefined(previousProject) /\ Coalesce(Req.usePreviousProject, TRUE)
PreviousFiles == Val(previousProject).files
ModeOf == Coalesce(Req.updateMode, "merge")
DeleteList == Coalesce(Req.deleteFiles, <<>>)
\* the keys deleteFiles names: each listed path, raw and normalized
DeleteTargets ==
    {DeleteList[i] : i \in 1..Len(DeleteList)}
    \cup {normalizeVirtualPath(DeleteList[i]) : i \in 1..Len(DeleteList)}
\* the file map the merge/replace step is specified to produce
Overlay(under, over) ==
    [k \in DOMAIN under \cup DOMAIN over |->
        IF k \in DOMAIN over THEN over[k] ELSE under[k]]
\* f and g have the same keys and texts, the keys deleteFiles names aside
SameFilesButDeleted(f, g) ==
    /\ DOMAIN f = DOMAIN g \ DeleteTargets
    /\ \A k \in DOMAIN f : f[k] = g[k]

\* C5: in merge mode with previous used and files in the request, the result's
\* keys are keys(previous.files) \cup keys(request.files), a key of the request
\* has the request's text and any other key previous's text (keys that
\* deleteFiles names aside: none when deleteFiles is absent or empty).
C5_MergeOverlay ==
    (Resolved /\ PreviousUsed /\ ModeOf = "merge" /\ IsDefined(Req.files))
    => /\ IsDefined(Result.project.files)
       /\ LET f == Val(Result.project.files)
              req == Val(Req.files)
          IN  /\ DOMAIN f = (DOMAIN PreviousFiles \cup DOMAIN req) \ DeleteTargets
              /\ \A k \in DOMAIN f :
                     f[k] = IF k \in DOMAIN req THEN req[k] ELSE PreviousFiles[k]

\* the spec's example: previous {/a: 1, /b: 2}, request {/b: 3, /c: 4}
C5_Witness ==
    /\ Resolved /\ PreviousUsed /\ ModeOf = "merge" /\ DeleteList = <<>>
    /\ PreviousFiles = (PathA :> "1" @@ PathB :> "2")
    /\ Req.files = Some(PathB :> "3" @@ PathC :> "4")
    /\ Result.project.files = Some(PathA :> "1" @@ PathB :> "3" @@ PathC :> "4")

\* C6: in replace mode with files in the request, the result's files are the
\* request's files exactly (keys that deleteFiles names aside) and no key that
\* only previous.files has survives, whatever previous is.
C6_ReplaceDiscardsPrevious ==
    (Resolved /\ ModeOf = "replace" /\ IsDefined(Req.files))
    => /\ IsDefined(Result.project.files)
       /\ SameFilesButDeleted(Val(Result.project.files), Val(Req.files))
       /\ DOMAIN Val(Result.project.files) \subseteq DOMAIN Val(Req.files)

\* the spec's example in replace mode: /a is dropped
C6_Witness ==
    /\ Resolved /\ PreviousUsed /\ ModeOf = "replace" /\ DeleteList = <<>>
    /\ PreviousFiles = (PathA :> "1" @@ PathB :> "2")
    /\ Req.files = Some(PathB :> "3" @@ PathC :> "4")
    /\ Result.project.files = Some(PathB :> "3" @@ PathC :> "4")

\* C7 (as claimed): without files in the request the result's files are
\* previous.files when previous is used, in either mode, and an empty file set
\* when no previous is used.
C7_NoFilesReusesOrEmpty ==
    (Resolved /\ Req.files = Undefined)
    => IF PreviousUsed
       THEN /\ IsDefined(Result.project.files)
            /\ SameFilesButDeleted(Val(Result.project.files), PreviousFiles)
       ELSE Result.project.files = Some(EmptyMap)

\* C7 (amended): without a files field in the request the result's files are
\* previous.files when previous is used, in either mode (keys that deleteFiles
\* names aside), and the result has no file map at all (files is undefined)
\* when no previous is used.
C7_NoFilesReusesOrUndefined ==
    (Resolved /\ Req.files = Undefined)
    => IF PreviousUsed
       THEN /\ IsDefined(Result.project.files)
            /\ SameFilesButDeleted(Val(Result.project.files), PreviousFiles)
       ELSE Result.project.files = Undefined

\* no files in the request, replace mode, previous used: its files come back
C7_Witness ==
    /\ Resolved /\ Req.files = Undefined /\ PreviousUsed
    /\ ModeOf = "replace" /\ DeleteList = <<>>
    /\ Result.project.files = Some(PreviousFiles)
    /\ Cardinality(DOMAIN PreviousFiles) = 2

\* the map deleteFilesFromMap is given, as C5, C6 and C7 specify it
FilesBeforeDelete ==
    IF IsDefined(Req.files)
    THEN IF PreviousUsed /\ ModeOf = "merge"
         THEN Overlay(PreviousFiles, Val(Req.files))
         ELSE Val(Req.files)
    ELSE PreviousFiles

\* C8 (as claimed): after the merge/replace step no path that deleteFiles
\* lists, raw or normalized, is a key of the result, and deletedFiles is the
\* number of keys removed: the size before the deletion minus the size after.
C8_DeleteFilesCount ==
    (Resolved /\ IsDefined(Result.project.files))
    => /\ DOMAIN Val(Result.project.files) \cap DeleteTargets = {}
       /\ Result.deletedFiles =
              Cardinality(DOMAIN FilesBeforeDelete)
              - Cardinality(DOMAIN Val(Result.project.files))

\* C9: each metadata field, entryFile and each props object is the request's
\* value when the request defines it, else previous's value when previous is
\* used, else the fixed default, in both update modes.
FieldNames ==
    {"title", "compositionId", "width", "height", "fps", "durationInFrames",
     "entryFile", "defaultProps", "inputProps"}
FieldDefaults ==
    [title |-> "Untitled", compositionId |-> "Main", width |-> 1920,
     height |-> 1080, fps |-> 30, durationInFrames |-> 150,
     entryFile |-> DefaultEntryFile, defaultProps |-> EmptyMap,
     inputProps |-> EmptyMap]
C9_FieldPrecedence ==
    Resolved
    => \A f \in FieldNames :
           Result.project[f] =
               IF IsDefined(Req[f]) THEN Val(Req[f])
               ELSE IF PreviousUsed THEN Val(previousProject)[f]
               ELSE FieldDefaults[f]

\* replace mode with files: a falsy width of the request is kept, the title
\* and the props the request omits come from previous
C9_Witness ==
    /\ Resolved /\ PreviousUsed /\ ModeOf = "replace" /\ IsDefined(Req.files)
    /\ Req.width = Some(0) /\ Result.project.width = 0
    /\ Req.title = Undefined /\ Result.project.title = "One"
    /\ Req.inputProps = Undefined /\ Result.project.inputProps = ("k" :> 2)
    /\ Req.fps = Some(60) /\ Result.project.fps = 60

\* C10: with usePreviousProject = false the result is the one for
\* previous = null whatever previous is, and it reports usedPreviousProject =
\* false and canReusePreviousProject = false; with usePreviousProject omitted
\* the result is the one for usePreviousProject = true.
C10_PreviousIgnoredWhenDisabled ==
    /\ (Resolved /\ Req.usePreviousProject = Some(FALSE))
       => /\ Result = resolveProjectInput(Req, Undefined)
          /\ \A f \in FieldNames :
                 Result.project[f] =
                     IF IsDefined(Req[f]) THEN Val(Req[f]) ELSE FieldDefaults[f]
          /\ IsDefined(Result.project.files) = IsDefined(Req.files)
          /\ IsDefined(Req.files)
             => SameFilesButDeleted(Val(Result.project.files), Val(Req.files))
          /\ Result.usedPreviousProject = FALSE
          /\ Result.canReusePreviousProject = FALSE
    /\ (Resolved /\ Req.usePreviousProject = Undefined)
       => /\ Result = resolveProjectInput(
                          [Req EXCEPT !.usePreviousProject = Some(TRUE)],
                          previousProject)
          /\ Result.canReusePreviousProject = TRUE
          /\ Result.usedPreviousProject = IsDefined(previousProject)

\* usePreviousProject = false, a previous project at hand, nothing but that in
\* the request: defaults and no files come back
C10_Witness ==
    /\ Resolved /\ Req.usePreviousProject = Some(FALSE)
    /\ previousProject = Some(ProjectOne)
    /\ Req.files = Undefined /\ Req.title = Undefined
    /\ Result.project.title = "Untitled"
    /\ Result.project.files = Undefined
    /\ Result.usedPreviousProject = FALSE

----------------------------------------------------------------------------
(* Import resolution inside the virtual project.                           *)

SUPPORTED_FILE_EXTENSIONS ==
    << <<".", "t", "s", "x">>,
       <<".", "t", "s">>,
       <<".", "j", "s", "x">>,
       <<".", "j", "s">>,
       <<".", "m", "j", "s">>,
       <<".", "c", "j", "s">>,
       <<".", "j", "s", "o", "n">>,
       <<".", "c", "s", "s">>,
       <<".", "s", "v", "g">>,
       <<".", "p", "n", "g">>,
       <<".", "j", "p", "g">>,
       <<".", "j", "p", "e", "g">>,
       <<".", "g", "i", "f">>,
       <<".", "w", "e", "b", "p">>,
       <<".", "m", "p", "4">>,
       <<".", "w", "e", "b", "m">>,
       <<".", "m", "o", "v">>,
       <<".", "m", "p", "3">>,
       <<".", "w", "a", "v">>,
       <<".", "o", "g", "g">> >>

IndexName == <<"i", "n", "d", "e", "x">>

\* String.prototype.startsWith for a one-character prefix
StartsWith(p, c) == Len(p) > 0 /\ p[1] = c

RECURSIVE StripTrailingSlashes(_)
StripTrailingSlashes(p) ==
    IF Len(p) > 0 /\ p[Len(p)] = "/"
    THEN StripTrailingSlashes(SubSeq(p, 1, Len(p) - 1)) ELSE p

MaxOf(S) == CHOOSE m \in S : \A x \in S : x <= m

\* path.posix.dirname: everything before the last "/" that is followed by a
\* segment; trailing separators are ignored
posixDirname(p) ==
    LET ends == { j \in 2..Len(p) :
                    p[j] = "/" /\ \E k \in (j + 1)..Len(p) : p[k] # "/" }
    IN  IF ends = {} THEN (IF StartsWith(p, "/") THEN <<"/">> ELSE <<".">>)
        ELSE IF MaxOf(ends) = 2 /\ StartsWith(p, "/") THEN <<"/", "/">>
        ELSE SubSeq(p, 1, MaxOf(ends) - 1)

\* path.posix.resolve(from, to) for an absolute `from` and a relative `to`:
\* the two are joined and normalized, and no separator is left at the end.
\* (The importer is always a normalized absolute path, so is its dirname.)
posixResolve(from, to) ==
    <<"/">> \o JoinSegments(
                 NormalizeSegments(SplitSegments(from \o <<"/">> \o to), 1, <<>>))

\* path.posix.join(a, b) for non-empty a and b
posixJoin(a, b) == posixNormalize(a \o <<"/">> \o b)

\* path.posix.extname: from the last "." of the last segment, unless that
\* segment has no ".", starts with its only ".", or is ".."
posixExtname(p) ==
    LET stripped == StripTrailingSlashes(p)
        segs == SplitSegments(stripped)
        base == segs[Len(segs)]
        dots == { i \in 1..Len(base) : base[i] = "." }
    IN  IF dots = {} THEN <<>>
        ELSE IF MaxOf(dots) = 1 THEN <<>>
        ELSE IF base = <<".", ".">> THEN <<>>
        ELSE SubSeq(base, MaxOf(dots), Len(base))

\* basePath of resolveVirtualImport
ImportBasePath(path, from) ==
    IF StartsWith(path, "/")
    THEN normalizeVirtualPath(path)
    ELSE normalizeVirtualPath(posixResolve(posixDirname(from), path))

\* the candidates added per extension, from the i-th extension on, with index
\* files probed before or after the extended path
RECURSIVE ProbeIndexFirst(_, _)
ProbeIndexFirst(basePath, i) ==
    IF i > Len(SUPPORTED_FILE_EXTENSIONS) THEN <<>>
    ELSE << posixJoin(basePath, IndexName \o SUPPORTED_FILE_EXTENSIONS[i]),
            basePath \o SUPPORTED_FILE_EXTENSIONS[i] >>
         \o ProbeIndexFirst(basePath, i + 1)

\* the loop over SUPPORTED_FILE_EXTENSIONS: for each extension in list order,
\* basePath + extension and then basePath/index + extension
RECURSIVE ProbeExtensions(_, _)
ProbeExtensions(basePath, i) ==
    IF i > Len(SUPPORTED_FILE_EXTENSIONS) THEN <<>>
    ELSE << basePath \o SUPPORTED_FILE_EXTENSIONS[i],
            posixJoin(basePath, IndexName \o SUPPORTED_FILE_EXTENSIONS[i]) >>
         \o ProbeExtensions(basePath, i + 1)

\* mutant of ImportCandidates: a path with an extension is probed as well
ImportCandidatesAlwaysProbed(basePath) ==
    <<basePath>> \o ProbeExtensions(basePath, 1)

\* the Set of candidates in insertion order (a repeated candidate keeps its
\* first position, which is all the search below depends on)
ImportCandidates(basePath) ==
    IF Len(posixExtname(basePath)) > 0 THEN <<basePath>>
    ELSE <<basePath>> \o ProbeExtensions(basePath, 1)

\* for (const candidate of candidates) if (candidate in files) return candidate
RECURSIVE FirstCandidateIn(_, _)
FirstCandidateIn(candidates, fileMap) ==
    IF candidates = <<>> THEN Undefined
    ELSE IF JsIn(Head(candidates), fileMap) THEN Some(Head(candidates))
    ELSE FirstCandidateIn(Tail(candidates), fileMap)

\* null is Undefined
resolveVirtualImport(path, from, fileMap) ==
    IF ~StartsWith(path, ".") /\ ~StartsWith(path, "/") THEN Undefined
    ELSE FirstCandidateIn(ImportCandidates(ImportBasePath(path, from)), fileMap)

\* the paths of the smoke test's project, and the keys that compete for the
\* specifier "./Scene"
VideoPath == <<"/", "s", "r", "c", "/", "V", "i", "d", "e", "o", ".", "t", "s", "x">>
ScenePath == <<"/", "s", "r", "c", "/", "S", "c", "e", "n", "e">>
SceneTsx == <<"/", "s", "r", "c", "/", "S", "c", "e", "n", "e", ".", "t", "s", "x">>
SceneTs == <<"/", "s", "r", "c", "/", "S", "c", "e", "n", "e", ".", "t", "s">>
SceneOgg == <<"/", "s", "r", "c", "/", "S", "c", "e", "n", "e", ".", "o", "g", "g">>
SceneIndexTsx == <<"/", "s", "r", "c", "/", "S", "c", "e", "n", "e", "/", "i", "n", "d", "e", "x", ".", "t", "s", "x">>
SceneIndexTs == <<"/", "s", "r", "c", "/", "S", "c", "e", "n", "e", "/", "i", "n", "d", "e", "x", ".", "t", "s">>
RootSceneTsx == <<"/", "S", "c", "e", "n", "e", ".", "t", "s", "x">>
\* keys that probing "/src/Scene.tsx" would find
SceneTsxTs == SceneTsx \o <<".", "t", "s">>
SceneTsxIndexTsx == SceneTsx \o <<"/", "i", "n", "d", "e", "x", ".", "t", "s", "x">>

ImportKeys ==
    { VideoPath, ScenePath, SceneTsx, SceneTs, SceneOgg, SceneIndexTsx,
      SceneIndexTs, RootSceneTsx, SceneTsxTs, SceneTsxIndexTsx }

\* every file map over ImportKeys (the contents play no part in resolution)
ImportFileMaps == { [k \in keys |-> "8"] : keys \in SUBSET ImportKeys }

\* relative, absolute, detoured, extended, bare and slash-ended specifiers
ImportSpecifiers ==
    { <<".", "/", "S", "c", "e", "n", "e">>, <<"/", "s", "r", "c", "/", "S", "c", "e", "n", "e">>, <<".", ".", "/", "s", "r", "c", "/", "S", "c", "e", "n", "e">>, <<".", ".", "/", "S", "c", "e", "n", "e">>, <<".", "/", "S", "c", "e", "n", "e", ".", "t", "s", "x">>,
      <<"S", "c", "e", "n", "e">>, <<".", "/", "S", "c", "e", "n", "e", "/">>, <<".", "/", "i", "n", "d", "e", "x">> }

Importers == { VideoPath, SceneIndexTsx }

ImportInit ==
    /\ InitStore
    /\ InitResolveIdle
    /\ InitCompileIdle
    /\ InitServerIdle
    /\ InitWidgetIdle /\ InitPathIdle /\ InitObjectsIdle
    /\ InitViewIdle
    /\ importFiles \in { Some(f) : f \in ImportFileMaps }
    /\ importPath \in { Some(s) : s \in ImportSpecifiers }
    /\ importer \in { Some(i) : i \in Importers }
    /\ resolvedFilePath = Undefined

\* one call of resolveVirtualImport; its result (null included) is kept
ResolveImport ==
    /\ IsDefined(importFiles)
    /\ resolvedFilePath = Undefined
    /\ resolvedFilePath' =
           Some(resolveVirtualImport(Val(importPath), Val(importer),
                                     Val(importFiles)))
    /\ UNCHANGED <<importFiles, importPath, importer>>
    /\ UNCHANGED notImportVars

ImportNext == ResolveImport

ImportSpec == ImportInit /\ [][ImportNext]_vars

----------------------------------------------------------------------------
(* Claims about import resolution (checked under ImportSpec).              *)

ImportCalled == IsDefined(resolvedFilePath)
ImportResult == Val(resolvedFilePath)
ImportMap == Val(importFiles)
\* the absolute path P of the specifier
ImportP == ImportBasePath(Val(importPath), Val(importer))
\* a relative or absolute specifier whose path has no extension
ExtensionlessImport ==
    /\ StartsWith(Val(importPath), ".") \/ StartsWith(Val(importPath), "/")
    /\ posixExtname(ImportP) = <<>>
NumExtensions == Len(SUPPORTED_FILE_EXTENSIONS)
Extended(P, i) == P \o SUPPORTED_FILE_EXTENSIONS[i]
IndexOf(P, i) == posixJoin(P, IndexName \o SUPPORTED_FILE_EXTENSIONS[i])

\* P, then P + e for every extension, then P/index + e for every extension
GroupedCandidates(P) ==
    <<P>> \o [i \in 1..NumExtensions |-> Extended(P, i)]
          \o [i \in 1..NumExtensions |-> IndexOf(P, i)]

\* C12: an extensionless relative or absolute specifier with path P resolves
\* to the first key of the file map in the order P, P + e for each supported
\* extension e in list order, P/index + e for each supported extension e in
\* list order; in particular, with P + e1 and P/index + e2 both in the map
\* (and P itself not), the result is an extended path P + e, never an index
\* file.
C12_ProbeOrderGrouped ==
    (ImportCalled /\ ExtensionlessImport)
    => /\ ImportResult = FirstCandidateIn(GroupedCandidates(ImportP), ImportMap)
       /\ \A i, j \in 1..NumExtensions :
              ( /\ Extended(ImportP, i) \in DOMAIN ImportMap
                /\ IndexOf(ImportP, j) \in DOMAIN ImportMap
                /\ ImportP \notin DOMAIN ImportMap )
              => \E k \in 1..NumExtensions :
                     ImportResult = Some(Extended(ImportP, k))

\* C13: "./Scene" imported from /src/Video.tsx, with /src/Scene.tsx and
\* /src/Scene/index.tsx in the file map and no bare key /src/Scene, resolves
\* to /src/Scene.tsx whatever else the map holds; and for any extensionless
\* specifier and any one extension e, an index file P/index + e is never the
\* result while P + e is a key of the map.
C13_ExtensionBeforeIndex ==
    /\ ( /\ ImportCalled
         /\ Val(importPath) = <<".", "/", "S", "c", "e", "n", "e">>
         /\ Val(importer) = VideoPath
         /\ SceneTsx \in DOMAIN ImportMap
         /\ SceneIndexTsx \in DOMAIN ImportMap
         /\ ScenePath \notin DOMAIN ImportMap )
       => ImportResult = Some(SceneTsx)
    /\ (ImportCalled /\ ExtensionlessImport)
       => \A i \in 1..NumExtensions :
              Extended(ImportP, i) \in DOMAIN ImportMap
              => ImportResult # Some(IndexOf(ImportP, i))

\* "./Scene" from /src/Video.tsx found /src/Scene.tsx although the index file
\* of the same extension, and an index file of another, were there too
C13_Witness ==
    /\ ImportCalled
    /\ Val(importPath) = <<".", "/", "S", "c", "e", "n", "e">>
    /\ Val(importer) = VideoPath
    /\ DOMAIN ImportMap = {VideoPath, SceneTsx, SceneIndexTsx, SceneIndexTs}
    /\ ImportResult = Some(SceneTsx)

----------------------------------------------------------------------------
(* The compiler: compileProjectBundle and the bundler run it starts.       *)
(*                                                                         *)
(* The text of a file is kept as what the bundler reads from it: the       *)
(* specifiers it imports and whether it parses.  An error message is kept  *)
(* as its kind, the file paths it spells out, and the list it carries.     *)

RUNTIME_MODULES ==
    { <<"r", "e", "a", "c", "t">>, <<"r", "e", "a", "c", "t", "/", "j", "s", "x", "-", "r", "u", "n", "t", "i", "m", "e">>, <<"r", "e", "a", "c", "t", "/", "j", "s", "x", "-", "d", "e", "v", "-", "r", "u", "n", "t", "i", "m", "e">>, <<"r", "e", "m", "o", "t", "i", "o", "n">> }

\* args.path in SHIM_MODULE_SOURCES
InShimSources(path) == path \in RUNTIME_MODULES \/ path \in ObjectPrototypeKeys

Stdin == <<"<", "s", "t", "d", "i", "n", ">">>
NoneWord == <<"n", "o", "n", "e">>

\* diagnostic is the parser's complaint about the text, "" when it parses
FileText(imports, diagnostic) ==
    [isString |-> TRUE, imports |-> imports, diagnostic |-> diagnostic]

Message(kind, names, available) ==
    [kind |-> kind, names |-> names, available |-> available]

\* the characters of a path in UTF-16 code unit order
CharOrder == <<"-", ".", "/", "0", "1", "2", "3", "4", "5", "6", "7", "8", "9", "A", "B", "C", "D", "E", "F", "G", "H", "I", "J", "K", "L", "M", "N", "O", "P", "Q", "R", "S", "T", "U", "V", "W", "X", "Y", "Z", "_", "a", "b", "c", "d", "e", "f", "g", "h", "i", "j", "k", "l", "m", "n", "o", "p", "q", "r", "s", "t", "u", "v", "w", "x", "y", "z">>
CharCode(c) == CHOOSE i \in 1..Len(CharOrder) : CharOrder[i] = c

\* a < b as Array.prototype.sort compares strings
RECURSIVE StringLess(_, _)
StringLess(a, b) ==
    IF a = <<>> THEN b # <<>>
    ELSE IF b = <<>> THEN FALSE
    ELSE IF Head(a) = Head(b) THEN StringLess(Tail(a), Tail(b))
    ELSE CharCode(Head(a)) < CharCode(Head(b))

\* Object.keys(o).sort()
RECURSIVE SortStrings(_)
SortStrings(S) ==
    IF S = {} THEN <<>>
    ELSE LET least == CHOOSE x \in S : \A y \in S \ {x} : StringLess(x, y)
         IN  <<least>> \o SortStrings(S \ {least})

\* normalizeFileMap over Object.entries(files), from the i-th entry on: a
\* later entry replaces an earlier one with the same normalized path
RECURSIVE normalizeFileMapFrom(_, _, _)
normalizeFileMapFrom(entries, i, acc) ==
    IF i > Len(entries) THEN [threw |-> FALSE, files |-> acc, rawFilePath |-> <<>>]
    ELSE IF ~entries[i].contents.isString
    THEN [threw |-> TRUE, files |-> acc, rawFilePath |-> entries[i].path]
    ELSE normalizeFileMapFrom(entries, i + 1,
             JsSpread(acc, normalizeVirtualPath(entries[i].path)
                               :> entries[i].contents))

normalizeFileMap(entries) ==
    normalizeFileMapFrom(entries, 1, [k \in {} |-> FileText(<<>>, "")])

\* the entry as compared with the keys, unnormalized
RawEntry(entryFile) == entryFile

NormalizedEntry(entryFile) == normalizeVirtualPath(entryFile)

\* what the plugin's onResolve answers for one import
onResolve(path, importerArg, normalizedEntry, normalizedFiles) ==
    IF InShimSources(path) THEN [kind |-> "runtime-shim", path |-> path]
    ELSE IF StartsWith(path, ".") \/ StartsWith(path, "/")
    THEN LET from == IF importerArg # <<>> /\ importerArg # Stdin
                     THEN importerArg ELSE normalizedEntry
             found == resolveVirtualImport(path, from, normalizedFiles)
         IN  IF IsDefined(found)
             THEN [kind |-> "user-file", path |-> Val(found)]
             ELSE [kind |-> "error", path |-> from]
    ELSE [kind |-> "ambient", path |-> path]

\* one diagnostic of the bundler: its text, the paths the text spells out,
\* and the file of its location
BuildError(text, names, file) == [text |-> text, names |-> names, file |-> file]

SeqToSet(q) == { q[i] : i \in 1..Len(q) }

\* the imports of a loaded file, each with its importer
ImportsOf(path, normalizedFiles) ==
    [i \in 1..Len(normalizedFiles[path].imports) |->
        [path |-> normalizedFiles[path].imports[i], importer |-> path]]

\* The bundler's walk over the module graph.  work is the list of imports
\* still to resolve; loaded the user files read so far; errors the
\* diagnostics.  A file that does not parse gives a diagnostic located in it
\* and its imports are not followed; a bare specifier goes to the ambient
\* package resolver, which finds the package or not.
RECURSIVE Build(_, _, _, _, _, _)
Build(work, loaded, errors, normalizedFiles, normalizedEntry, ambient) ==
    IF work = <<>> THEN [loaded |-> loaded, errors |-> errors]
    ELSE
    LET item == Head(work)
        r == onResolve(item.path, item.importer, normalizedEntry, normalizedFiles)
        rest == Tail(work)
        importerFile == IF item.importer = Stdin THEN Undefined
                        ELSE Some(item.importer)
    IN  IF r.kind = "error"
        THEN Build(rest, loaded,
                   Append(errors, BuildError("Cannot resolve import",
                                             {item.path, r.path}, importerFile)),
                   normalizedFiles, normalizedEntry, ambient)
        ELSE IF r.kind = "runtime-shim"
        THEN IF r.path \in RUNTIME_MODULES
             THEN Build(rest, loaded, errors, normalizedFiles, normalizedEntry,
                        ambient)
             ELSE Build(rest, loaded,
                        Append(errors, BuildError("contents must be a string",
                                                  {r.path}, importerFile)),
                        normalizedFiles, normalizedEntry, ambient)
        ELSE IF r.kind = "ambient"
        THEN IF ambient
             THEN Build(rest, loaded, errors, normalizedFiles, normalizedEntry,
                        ambient)
             ELSE Build(rest, loaded,
                        Append(errors, BuildError("Could not resolve",
                                                  {item.path}, importerFile)),
                        normalizedFiles, normalizedEntry, ambient)
        ELSE IF r.path \in SeqToSet(loaded)
        THEN Build(rest, loaded, errors, normalizedFiles, normalizedEntry, ambient)
        ELSE IF normalizedFiles[r.path].diagnostic # ""
        THEN Build(rest, Append(loaded, r.path),
                   Append(errors, BuildError(normalizedFiles[r.path].diagnostic,
                                             {}, Some(r.path))),
                   normalizedFiles, normalizedEntry, ambient)
        ELSE Build(rest \o ImportsOf(r.path, normalizedFiles),
                   Append(loaded, r.path), errors,
                   normalizedFiles, normalizedEntry, ambient)

\* the first five errors, each as location and text
formatCompileFailure(errors) ==
    LET shown == SubSeq(errors, 1, IF Len(errors) < 5 THEN Len(errors) ELSE 5)
    IN  Message("BuildFailed",
                UNION { shown[i].names \cup
                          (IF IsDefined(shown[i].file) THEN {Val(shown[i].file)}
                           ELSE {}) : i \in 1..Len(shown) },
                [i \in 1..Len(shown) |-> shown[i].text])

\* a hint is appended for an unterminated string literal (the two hints
\* about "No matching export" need a diagnostic the bundler model never
\* gives); a hint names no file
addRemotionCompileHints(message) ==
    IF "Unterminated string literal" \in SeqToSet(message.available)
    THEN [message EXCEPT !.available =
              Append(@, "Hint: check for missing quote characters")]
    ELSE message

NoMessage == Message("", {}, <<>>)

\* onLoad of the user-file namespace: the text the bundler is handed for
\* what onResolve answered (nothing for the other namespaces and for errors)
onLoad(answer, normalizedFiles) ==
    IF answer.kind = "user-file" /\ answer.path \in DOMAIN normalizedFiles
    THEN Some(normalizedFiles[answer.path])
    ELSE Undefined

\* one import as the plugin saw it: the specifier, its importer, what
\* onResolve answered and what onLoad then handed over
Resolution(path, importerArg, normalizedFiles, normalizedEntry) ==
    LET answer == onResolve(path, importerArg, normalizedEntry, normalizedFiles)
    IN  [path |-> path, importer |-> importerArg, answer |-> answer,
         loaded |-> onLoad(answer, normalizedFiles)]

\* what the plugin was asked during a build: once for the entry (imported by
\* the stdin text) and once for each import of each file that was loaded and
\* parsed
Resolutions(loaded, normalizedFiles, normalizedEntry) ==
    { Resolution(normalizedEntry, Stdin, normalizedFiles, normalizedEntry) }
    \cup
    UNION { { Resolution(normalizedFiles[f].imports[i], f, normalizedFiles,
                         normalizedEntry) :
                i \in 1..Len(normalizedFiles[f].imports) } :
            f \in { g \in SeqToSet(loaded) : normalizedFiles[g].diagnostic = "" } }

Threw(message, bundlerRan, resolutions) ==
    [threw |-> TRUE, message |-> message, bundle |-> <<>>,
     bundlerRan |-> bundlerRan, resolutions |-> resolutions]

\* compileProjectBundle; ambient says whether the packages that bare
\* specifiers name are installed.  The bundle is the IIFE wrapper around the
\* loaded modules.
compileProjectBundle(entries, entryFile, ambient) ==
    LET normalized == normalizeFileMap(entries)
        normalizedFiles == normalized.files
        normalizedEntry == NormalizedEntry(entryFile)
        built == Build(<<[path |-> normalizedEntry, importer |-> Stdin]>>,
                       <<>>, <<>>, normalizedFiles, normalizedEntry, ambient)
        output == <<<<"v", "a", "r">>>> \o built.loaded
        asked == Resolutions(built.loaded, normalizedFiles, normalizedEntry)
    IN  IF normalized.threw
        THEN Threw(Message("NotAString", {normalized.rawFilePath}, <<>>),
                   FALSE, {})
        ELSE IF ~JsIn(normalizedEntry, normalizedFiles)
        THEN Threw(Message("EntryMissing", {normalizedEntry},
                           IF DOMAIN normalizedFiles = {} THEN <<NoneWord>>
                           ELSE SortStrings(DOMAIN normalizedFiles)), FALSE, {})
        ELSE IF built.errors # <<>>
        THEN Threw(addRemotionCompileHints(formatCompileFailure(built.errors)),
                   TRUE, asked)
        ELSE IF output = <<>>
        THEN Threw(Message("NoOutput", {}, <<>>), TRUE, asked)
        ELSE [threw |-> FALSE, message |-> NoMessage, bundle |-> output,
              bundlerRan |-> TRUE, resolutions |-> asked]

\* number of files in a project given to the compiler
MaxFiles == 2

\* "src/Video.tsx": the entry of the smoke test spelled without its slash
RawVideoPath == <<"s", "r", "c", "/", "V", "i", "d", "e", "o", ".", "t", "s", "x">>
MissingPath == <<"/", "m", "i", "s", "s", "i", "n", "g", ".", "t", "s", "x">>

CompilePaths == { VideoPath, RawVideoPath, SceneTsx }

\* texts: no import; the scene; a file that is not there; a runtime module
\* and a package; the package "constructor"; two texts that do not parse
CompileTexts ==
    { FileText(<<>>, ""),
      FileText(<<<<".", "/", "S", "c", "e", "n", "e">>>>, ""),
      FileText(<<<<".", "/", "M", "i", "s", "s", "i", "n", "g">>>>, ""),
      FileText(<<<<"r", "e", "m", "o", "t", "i", "o", "n">>, <<"l", "o", "d", "a", "s", "h">>>>, ""),
      FileText(<<ConstructorKey>>, ""),
      FileText(<<>>, "Unexpected end of file"),
      FileText(<<>>, "Unterminated string literal") }

\* Object.entries of a file map: its keys are distinct
CompileEntries ==
    UNION { { e \in [1..n -> [path : CompilePaths, contents : CompileTexts]] :
                \A i, j \in 1..n : i # j => e[i].path # e[j].path }
            : n \in 0..MaxFiles }

CompileInit ==
    /\ InitStore
    /\ InitResolveIdle
    /\ InitImportIdle
    /\ InitServerIdle
    /\ InitWidgetIdle /\ InitPathIdle /\ InitObjectsIdle
    /\ InitViewIdle
    /\ compileFiles \in { Some(e) : e \in CompileEntries }
    /\ compileEntry \in { Some(VideoPath), Some(RawVideoPath), Some(MissingPath) }
    /\ compileResult = Undefined

\* one call of compileProjectBundle, run to its end
Compile(ambient) ==
    /\ IsDefined(compileFiles)
    /\ compileResult = Undefined
    /\ compileResult' =
           Some(compileProjectBundle(Val(compileFiles), Val(compileEntry), ambient))
    /\ UNCHANGED <<compileFiles, compileEntry>>
    /\ UNCHANGED notCompileVars

CompileNext == \E ambient \in BOOLEAN : Compile(ambient)

CompileSpec == CompileInit /\ [][CompileNext]_vars

----------------------------------------------------------------------------
(* Claims about the compiler (checked under CompileSpec).                  *)

CompileCalled == IsDefined(compileResult)
Compiled == Val(compileResult)
\* the normalized paths of the files given, and the normalized entry
GivenPaths ==
    { normalizeVirtualPath(Val(compileFiles)[i].path) :
        i \in 1..Len(Val(compileFiles)) }
GivenEntry == normalizeVirtualPath(Val(compileEntry))
IsSortedList(q) == \A i \in 1..(Len(q) - 1) : StringLess(q[i], q[i + 1])

\* C14: compileProjectBundle fails before the bundler runs exactly when the
\* normalized entry is not among the normalized paths of the files; the
\* message then names the normalized entry and lists all those paths in
\* sorted order, or "none" when there is no file; an entry without its
\* leading slash matches the key that has one.
C14_EntryMissing ==
    CompileCalled
    => /\ (Compiled.threw /\ ~Compiled.bundlerRan) <=> (GivenEntry \notin GivenPaths)
       /\ (GivenEntry \notin GivenPaths)
          => /\ Compiled.message.kind = "EntryMissing"
             /\ GivenEntry \in Compiled.message.names
             /\ IF GivenPaths = {}
                THEN Compiled.message.available = <<NoneWord>>
                ELSE /\ SeqToSet(Compiled.message.available) = GivenPaths
                     /\ Len(Compiled.message.available) = Cardinality(GivenPaths)
                     /\ IsSortedList(Compiled.message.available)
       /\ ( /\ Val(compileEntry) = RawVideoPath
            /\ \E i \in 1..Len(Val(compileFiles)) :
                   Val(compileFiles)[i].path = VideoPath )
          => Compiled.message.kind # "EntryMissing"

\* the entry "src/Video.tsx" was found under the key "/src/Video.tsx" and the
\* bundler ran
C14_Witness ==
    /\ CompileCalled
    /\ Val(compileEntry) = RawVideoPath
    /\ Len(Val(compileFiles)) = 2
    /\ Val(compileFiles)[1].path = VideoPath
    /\ Compiled.bundlerRan
    /\ ~Compiled.threw

\* "/missing.tsx" is not there: the message lists the two files in order
C14_WitnessMissing ==
    /\ CompileCalled
    /\ Val(compileEntry) = MissingPath
    /\ Compiled.threw
    /\ Compiled.message.available = <<SceneTsx, VideoPath>>

\* C15: for an entry that is a key of the file map, compileProjectBundle
\* returns a non-empty bundle or throws an error whose message names the
\* entry, whichever failure it was (an unresolved import, a diagnostic in
\* another file, no output).
C15_ErrorNamesEntry ==
    (CompileCalled /\ GivenEntry \in GivenPaths)
    => \/ ~Compiled.threw /\ Compiled.bundle # <<>>
       \/ Compiled.threw /\ GivenEntry \in Compiled.message.names

----------------------------------------------------------------------------
(* The response artifact and the checks made before a compile.             *)

\* `var <global> = { default: function RemotionFallback() { return null; } };`
ERROR_FALLBACK_BUNDLE == << <<"v", "a", "r">>, <<"R", "e", "m", "o", "t", "i", "o", "n", "F", "a", "l", "l", "b", "a", "c", "k">> >>

MetaFields ==
    {"title", "compositionId", "width", "height", "fps", "durationInFrames"}

\* fallbackMeta ?? {}: no field given
NoOverrides == [f \in MetaFields |-> Undefined]

\* the message of a failed call: its fixed text and, for a compile failure,
\* the compiler's message
ErrorText(text, cause) == [text |-> text, cause |-> cause]

\* mutant of buildProjectData: no fallback bundle is put in
buildProjectDataNoFallback(overrides, config) ==
    [meta |-> [f \in MetaFields |-> Coalesce(overrides[f], DEFAULT_META[f])],
     bundle |-> Coalesce(config.bundle, <<>>),
     defaultProps |-> Coalesce(config.defaultProps, EmptyMap),
     inputProps |-> Coalesce(config.inputProps, EmptyMap),
     compileError |-> config.compileError]

\* buildProjectData; overrides and config hold optional values
buildProjectData(overrides, config) ==
    [meta |-> [f \in MetaFields |-> Coalesce(overrides[f], DEFAULT_META[f])],
     bundle |-> Coalesce(config.bundle, ERROR_FALLBACK_BUNDLE),
     defaultProps |-> Coalesce(config.defaultProps, EmptyMap),
     inputProps |-> Coalesce(config.inputProps, EmptyMap),
     compileError |-> config.compileError]

\* failProject: the artifact handed to widget(); fallbackProps?.x is undefined
\* when no fallbackProps are given
failProject(message, fallbackMeta, fallbackProps) ==
    buildProjectData(Coalesce(fallbackMeta, NoOverrides),
        [bundle |-> Undefined,
         compileError |-> Some(message),
         defaultProps |-> IF IsDefined(fallbackProps)
                          THEN Val(fallbackProps).defaultProps ELSE Undefined,
         inputProps |-> IF IsDefined(fallbackProps)
                        THEN Val(fallbackProps).inputProps ELSE Undefined])

\* the number Infinity, kept as an integer above every other number used
PositiveInfinity == 1000000000
\* Number.isFinite(value)
IsFinite(value) == value # PositiveInfinity

\* mutant of validatePositiveNumber: zero and negative numbers pass
validateFiniteNumber(name, value) ==
    IF ~IsFinite(value) THEN Some(name) ELSE Undefined

\* validatePositiveNumber: an error message or null
validatePositiveNumber(name, value) ==
    IF ~IsFinite(value) \/ value <= 0 THEN Some(name) ELSE Undefined

\* the first of width, height, fps, durationInFrames that is not positive
FirstInvalidNumber(parsedInput) ==
    IF IsDefined(validatePositiveNumber("width", parsedInput.width))
    THEN validatePositiveNumber("width", parsedInput.width)
    ELSE IF IsDefined(validatePositiveNumber("height", parsedInput.height))
    THEN validatePositiveNumber("height", parsedInput.height)
    ELSE IF IsDefined(validatePositiveNumber("fps", parsedInput.fps))
    THEN validatePositiveNumber("fps", parsedInput.fps)
    ELSE validatePositiveNumber("durationInFrames", parsedInput.durationInFrames)

\* a file whose contents are not a string
NotAString == [isString |-> FALSE, imports |-> <<>>, diagnostic |-> ""]

\* filesSchema: a record of strings with at least one key
FilesSchemaAccepts(files) ==
    /\ IsDefined(files)
    /\ DOMAIN Val(files) # {}
    /\ \A k \in DOMAIN Val(files) : Val(files)[k].isString

\* projectVideoSchema.safeParse(project) for a project whose fields other than
\* files have the right types: files must pass filesSchema, absent fields take
\* their defaults, and keys the schema does not name are dropped
safeParse(project) ==
    IF ~FilesSchemaAccepts(project.files)
    THEN [success |-> FALSE, data |-> Undefined]
    ELSE [success |-> TRUE,
          data |-> Some(
            [title |-> Coalesce(project.title, DEFAULT_META.title),
             compositionId |-> Coalesce(project.compositionId,
                                        DEFAULT_META.compositionId),
             width |-> Coalesce(project.width, DEFAULT_META.width),
             height |-> Coalesce(project.height, DEFAULT_META.height),
             fps |-> Coalesce(project.fps, DEFAULT_META.fps),
             durationInFrames |-> Coalesce(project.durationInFrames,
                                           DEFAULT_META.durationInFrames),
             entryFile |-> Coalesce(project.entryFile, DefaultEntryFile),
             files |-> Val(project.files),
             defaultProps |-> Coalesce(project.defaultProps, EmptyMap),
             inputProps |-> Coalesce(project.inputProps, EmptyMap)])]

\* the meta object of compileAndRespondWithProject, every field given
MetaOf(parsedInput) == [f \in MetaFields |-> Some(parsedInput[f])]

PropsOf(parsedInput) ==
    Some([defaultProps |-> Some(parsedInput.defaultProps),
          inputProps |-> Some(parsedInput.inputProps)])

----------------------------------------------------------------------------
(* The tool handlers of the two-tool server.  A handler runs without       *)
(* interruption up to `await compileProjectBundle`; what it leaves is      *)
(* either a response or a call suspended at the compile.                   *)

\* mutant of Truthy: the flag is never taken as set
NeverTruthy(flag) == FALSE

\* rawParams.resetProject as a condition
Truthy(flag) == IsDefined(flag) /\ Val(flag)

\* a handler that returns before any compile
Rejected(store, message, meta, props, previous, resolvedFiles) ==
    [suspended |-> FALSE, store |-> store,
     response |-> Some(failProject(message, meta, props)),
     parsed |-> Undefined, stored |-> Undefined,
     previous |-> previous, resolvedFiles |-> resolvedFiles]

\* mutant of StoreBeforeCompile: only a project whose files all parse is
\* written
StoreIfCompiles(store, sessionId, currentState) ==
    IF \A k \in DOMAIN currentState.files : currentState.files[k].diagnostic = ""
    THEN rememberSessionProject(store, sessionId, currentState)
    ELSE store

\* mutant of StoreBeforeCompile: the record is not written before the compile
StoreDeferred(store, sessionId, currentState) == store

\* rememberSessionProject(sessionId, currentState), which comes before the
\* await
StoreBeforeCompile(store, sessionId, currentState) ==
    rememberSessionProject(store, sessionId, currentState)

\* mutant of compileAndRespondWithProject: the project is remembered before
\* its numbers are validated
compileAndRespondStoringFirst(store, parsedInput, sessionId, previous, resolvedFiles) ==
    LET invalid == FirstInvalidNumber(parsedInput)
        currentState == [f \in DOMAIN parsedInput |-> parsedInput[f]]
        written == StoreBeforeCompile(store, sessionId, currentState)
    IN  IF IsDefined(invalid)
        THEN Rejected(written,
                      ErrorText("must be a positive number.",
                                Message(Val(invalid), {}, <<>>)),
                      Some(MetaOf(parsedInput)), PropsOf(parsedInput),
                      previous, resolvedFiles)
        ELSE [suspended |-> TRUE, store |-> written, response |-> Undefined,
              parsed |-> Some(parsedInput), stored |-> Some(currentState),
              previous |-> previous, resolvedFiles |-> resolvedFiles]

\* compileAndRespondWithProject up to its await
compileAndRespondWithProject(store, parsedInput, sessionId, previous, resolvedFiles) ==
    LET invalid == FirstInvalidNumber(parsedInput)
        currentState ==
            [title |-> parsedInput.title,
             compositionId |-> parsedInput.compositionId,
             width |-> parsedInput.width, height |-> parsedInput.height,
             fps |-> parsedInput.fps,
             durationInFrames |-> parsedInput.durationInFrames,
             entryFile |-> parsedInput.entryFile,
             files |-> cloneFileMap(parsedInput.files),
             defaultProps |-> cloneRecord(parsedInput.defaultProps),
             inputProps |-> cloneRecord(parsedInput.inputProps)]
    IN  IF IsDefined(invalid)
        THEN Rejected(store,
                      ErrorText("must be a positive number.",
                                Message(Val(invalid), {}, <<>>)),
                      Some(MetaOf(parsedInput)), PropsOf(parsedInput),
                      previous, resolvedFiles)
        ELSE [suspended |-> TRUE,
              store |-> StoreBeforeCompile(store, sessionId, currentState),
              response |-> Undefined,
              parsed |-> Some(parsedInput), stored |-> Some(currentState),
              previous |-> previous, resolvedFiles |-> resolvedFiles]

InvalidInput == ErrorText("Invalid input: ", NoMessage)

\* mutant of createVideo: the files of the session's previous project are
\* kept under the request's
createVideoReusing(store, sessionId, rawParams) ==
    LET cleared == IF Truthy(rawParams.resetProject)
                   THEN clearSessionProject(store, sessionId) ELSE store
        previous == getSessionProject(cleared, sessionId)
        parseResult == safeParse(rawParams)
    IN  IF ~parseResult.success
        THEN Rejected(cleared, InvalidInput, Undefined, Undefined,
                      Undefined, Undefined)
        ELSE compileAndRespondWithProject(cleared,
                 [Val(parseResult.data) EXCEPT !.files =
                      IF IsDefined(previous)
                      THEN JsSpread(Val(previous).files, @) ELSE @],
                 sessionId, Undefined, Undefined)

\* the create_video handler
createVideo(store, sessionId, rawParams) ==
    LET cleared == IF Truthy(rawParams.resetProject)
                   THEN clearSessionProject(store, sessionId) ELSE store
        parseResult == safeParse(rawParams)
    IN  IF ~parseResult.success
        THEN Rejected(cleared, InvalidInput, Undefined, Undefined,
                      Undefined, Undefined)
        ELSE compileAndRespondWithProject(cleared, Val(parseResult.data),
                                          sessionId, Undefined, Undefined)

\* mutant of ReadPrevious: the previous project is not looked up
ReadNothing(store, sessionId) == Undefined

\* const previousProject = getSessionProject(sessionId)
ReadPrevious(store, sessionId) == getSessionProject(store, sessionId)

\* resolved.project with its fields as optional values, as safeParse reads it
AsOptional(project) ==
    [title |-> Some(project.title), compositionId |-> Some(project.compositionId),
     width |-> Some(project.width), height |-> Some(project.height),
     fps |-> Some(project.fps),
     durationInFrames |-> Some(project.durationInFrames),
     entryFile |-> Some(project.entryFile), files |-> project.files,
     defaultProps |-> Some(project.defaultProps),
     inputProps |-> Some(project.inputProps)]

NoFilesReuse ==
    ErrorText("No project files available. Provide files on the first call or remove resetProject.",
              NoMessage)
NoFilesNoReuse ==
    ErrorText("No project files available. Provide files when usePreviousProject is false.",
              NoMessage)

\* mutant of NoResolvedFiles: an empty file map is let through
NoResolvedFilesAtAll(resolvedFiles) == ~IsDefined(resolvedFiles)

\* !resolvedFiles || Object.keys(resolvedFiles).length === 0
NoResolvedFiles(resolvedFiles) ==
    ~IsDefined(resolvedFiles) \/ DOMAIN Val(resolvedFiles) = {}

\* the update_video handler
updateVideo(store, sessionId, rawParams) ==
    LET cleared == IF Truthy(rawParams.resetProject)
                   THEN clearSessionProject(store, sessionId) ELSE store
        previous == ReadPrevious(cleared, sessionId)
        res == resolveProjectInput(rawParams, previous)
        resolvedFiles == res.project.files
        parseResult == safeParse(AsOptional(res.project))
    IN  IF NoResolvedFiles(resolvedFiles)
        THEN Rejected(cleared,
                      IF res.canReusePreviousProject
                      THEN NoFilesReuse ELSE NoFilesNoReuse,
                      Undefined, Undefined, previous, resolvedFiles)
        ELSE IF ~parseResult.success
        THEN Rejected(cleared, InvalidInput, Undefined, Undefined,
                      previous, resolvedFiles)
        ELSE compileAndRespondWithProject(cleared, Val(parseResult.data),
                                          sessionId, previous, resolvedFiles)

\* mutant of respondAfterCompile: no try / catch around the compile
respondUncaught(result, parsedInput) ==
    [threw |-> result.threw,
     response |->
        IF result.threw THEN Undefined
        ELSE Some(buildProjectData(MetaOf(parsedInput),
                      [bundle |-> Some(result.bundle),
                       defaultProps |-> Some(parsedInput.defaultProps),
                       inputProps |-> Some(parsedInput.inputProps),
                       compileError |-> Undefined]))]

\* compileAndRespondWithProject after its await: the catch, or the artifact
\* around the bundle
respondAfterCompile(result, parsedInput) ==
    [threw |-> FALSE,
     response |->
        IF result.threw
        THEN Some(failProject(ErrorText("Project compilation error: ",
                                        result.message),
                              Some(MetaOf(parsedInput)), PropsOf(parsedInput)))
        ELSE Some(buildProjectData(MetaOf(parsedInput),
                      [bundle |-> Some(result.bundle),
                       defaultProps |-> Some(parsedInput.defaultProps),
                       inputProps |-> Some(parsedInput.inputProps),
                       compileError |-> Undefined]))]

----------------------------------------------------------------------------
(* Tool calls: the requests tried and the two steps of a call.             *)

\* number of tool calls in one behaviour
NumCalls == 2

GoodText == FileText(<<>>, "")
ImportsScene == FileText(<<<<".", "/", "S", "c", "e", "n", "e">>>>, "")
BrokenText == FileText(<<>>, "Unexpected end of file")

ServerRequest(files, deleteFiles, updateMode, usePreviousProject, resetProject, width) ==
    [title |-> Undefined, compositionId |-> Undefined, width |-> width,
     height |-> Undefined, fps |-> Undefined, durationInFrames |-> Undefined,
     entryFile |-> Undefined, defaultProps |-> Undefined,
     inputProps |-> Undefined, files |-> files, deleteFiles |-> deleteFiles,
     updateMode |-> updateMode, usePreviousProject |-> usePreviousProject,
     resetProject |-> resetProject]

FilesOnly(files) ==
    ServerRequest(files, Undefined, Undefined, Undefined, Undefined, Undefined)

OneFile == FilesOnly(Some(VideoPath :> GoodText))
SecondFile == FilesOnly(Some(SceneTsx :> GoodText))
NoFiles == FilesOnly(Undefined)

\* requests made of create_video: a one-file project, no files at all, a text
\* that does not parse, contents that are not a string, a width of zero, an
\* infinite width, resetProject alone, the scene alone, a width of 640
CreateRequests ==
    { OneFile, NoFiles,
      FilesOnly(Some(VideoPath :> BrokenText)),
      FilesOnly(Some(VideoPath :> NotAString)),
      ServerRequest(Some(VideoPath :> GoodText), Undefined, Undefined,
                    Undefined, Undefined, Some(0)),
      ServerRequest(Some(VideoPath :> GoodText), Undefined, Undefined,
                    Undefined, Undefined, Some(PositiveInfinity)),
      ServerRequest(Undefined, Undefined, Undefined, Undefined, Some(TRUE),
                    Undefined),
      SecondFile,
      ServerRequest(Some(VideoPath :> GoodText), Undefined, Undefined,
                    Undefined, Undefined, Some(640)) }

\* requests made of update_video: the entry file, a second file, an entry
\* that imports the second file, no files at all, deleteFiles of every file,
\* resetProject, usePreviousProject = false, replace mode, resetProject with
\* a file
UpdateRequests ==
    { OneFile, SecondFile, NoFiles,
      FilesOnly(Some(VideoPath :> ImportsScene)),
      ServerRequest(Undefined, Some(<<VideoPath, SceneTsx>>), Undefined,
                    Undefined, Undefined, Undefined),
      ServerRequest(Undefined, Undefined, Undefined, Undefined, Some(TRUE),
                    Undefined),
      ServerRequest(Undefined, Undefined, Undefined, Some(FALSE), Undefined,
                    Undefined),
      ServerRequest(Some(SceneTsx :> GoodText), Undefined, Some("replace"),
                    Undefined, Undefined, Undefined),
      ServerRequest(Some(SceneTsx :> GoodText), Undefined, Undefined,
                    Undefined, Some(TRUE), Undefined) }

\* the session that has been in the store longest, and one that is not in it
ResidentSession == IdTable[1]
NewSession == IdTable[MAX_SESSION_PROJECTS + 1]
ServerSessions == { ResidentSession, NewSession }

ToolCall(tool, sessionId, rawParams) ==
    [tool |-> tool, sessionId |-> sessionId, rawParams |-> rawParams]

\* every request in the first session, and in the second the ones that show
\* a session without a record
ToolCalls ==
    { ToolCall("create_video", ResidentSession, r) : r \in CreateRequests }
    \cup
    { ToolCall("update_video", ResidentSession, r) : r \in UpdateRequests }
    \cup
    { ToolCall("create_video", NewSession, OneFile),
      ToolCall("update_video", NewSession, NoFiles),
      ToolCall("update_video", NewSession, SecondFile) }

\* the record create_video stores for the one-file project
BaseProject ==
    [title |-> DEFAULT_META.title, compositionId |-> DEFAULT_META.compositionId,
     width |-> DEFAULT_META.width, height |-> DEFAULT_META.height,
     fps |-> DEFAULT_META.fps, durationInFrames |-> DEFAULT_META.durationInFrames,
     entryFile |-> DefaultEntryFile, files |-> (VideoPath :> GoodText),
     defaultProps |-> EmptyMap, inputProps |-> EmptyMap]

\* the store after MAX_SESSION_PROJECTS sessions created the one-file project
FullStore ==
    [i \in 1..MAX_SESSION_PROJECTS |-> [key |-> IdTable[i], value |-> BaseProject]]

ServerInit ==
    /\ sessionProjects \in { <<>>, FullStore }
    /\ lastOp = NoOp
    /\ clock = 0
    /\ lastRemember = [s \in SessionIds |-> 0]
    /\ lastUse = [s \in SessionIds |-> 0]
    /\ InitResolveIdle
    /\ InitImportIdle
    /\ InitCompileIdle
    /\ InitServerIdle
    /\ InitWidgetIdle /\ InitPathIdle /\ InitObjectsIdle
    /\ InitViewIdle

serverFrame ==
    <<lastOp, clock, lastRemember, lastUse, resolveVars, importVars, compileVars,
      widgetVars, pathVars, objectVars, viewVars>>

\* a tool call arrives and its handler runs up to its return or its await
Handle(tool, sessionId, rawParams) ==
    /\ handled < NumCalls
    /\ \E out \in { IF tool = "create_video"
                     THEN createVideo(sessionProjects, sessionId, rawParams)
                     ELSE updateVideo(sessionProjects, sessionId, rawParams) } :
           /\ sessionProjects' = out.store
           /\ inflight' =
                  IF out.suspended
                  THEN inflight \cup
                         { [order |-> handled + 1, tool |-> tool,
                            sessionId |-> sessionId, rawParams |-> rawParams,
                            parsed |-> Val(out.parsed)] }
                  ELSE inflight
           /\ lastEvent' =
                  [kind |-> "handle", order |-> handled + 1, tool |-> tool,
                   sessionId |-> sessionId, rawParams |-> rawParams,
                   before |-> sessionProjects, previous |-> out.previous,
                   resolvedFiles |-> out.resolvedFiles,
                   suspended |-> out.suspended, stored |-> out.stored,
                   compile |-> Undefined, threw |-> FALSE,
                   response |-> out.response,
                   handledLast |-> [order |-> handled + 1,
                                    sessionId |-> sessionId,
                                    stored |-> out.stored]]
    /\ handled' = handled + 1
    /\ UNCHANGED serverFrame

\* Object.entries of a file map, in one of the orders its keys can have
EntryOrders(files) ==
    { e \in [1..Cardinality(DOMAIN files) ->
                [path : DOMAIN files, contents : {files[k] : k \in DOMAIN files}]] :
        /\ \A i \in DOMAIN e : e[i].contents = files[e[i].path]
        /\ \A i, j \in DOMAIN e : i # j => e[i].path # e[j].path }

\* whether the packages that bare specifiers name are installed: a choice
\* only where a file names one
AmbientChoices(files) ==
    IF \E k \in DOMAIN files : \E i \in DOMAIN files[k].imports :
           /\ ~InShimSources(files[k].imports[i])
           /\ ~StartsWith(files[k].imports[i], ".")
           /\ ~StartsWith(files[k].imports[i], "/")
    THEN BOOLEAN ELSE {TRUE}

\* mutant of CompileFiles: the compiler reads one file system that every
\* pending call has written its files to
SharedCompileFiles(call, pending) ==
    [k \in DOMAIN call.parsed.files
            \cup UNION { DOMAIN c.parsed.files : c \in pending } |->
        IF k \in DOMAIN call.parsed.files THEN call.parsed.files[k]
        ELSE (CHOOSE c \in pending : k \in DOMAIN c.parsed.files).parsed.files[k]]

\* the files argument of the call's compileProjectBundle(files, entryFile):
\* the files of its own parsedInput
CompileFiles(call, pending) == call.parsed.files

\* mutant of StoreAfterCompile: the project is remembered again when its
\* compile ends
RememberAfterCompile(store, call) ==
    rememberSessionProject(store, call.sessionId,
        [f \in DOMAIN BaseProject |-> call.parsed[f]])

\* the store once a call's compile has ended: compileAndRespondWithProject
\* only builds its response after the await
StoreAfterCompile(store, call) == store

\* the compile of a suspended call ends and the handler returns its response
FinishCompile(call, entries, ambient) ==
    /\ call \in inflight
    /\ \E result \in { compileProjectBundle(entries, call.parsed.entryFile, ambient) } :
       \E out \in { respondAfterCompile(result, call.parsed) } :
           lastEvent' =
               [kind |-> "finish", order |-> call.order, tool |-> call.tool,
                sessionId |-> call.sessionId, rawParams |-> call.rawParams,
                before |-> sessionProjects, previous |-> Undefined,
                resolvedFiles |-> Some(call.parsed.files),
                suspended |-> FALSE, stored |-> Undefined,
                compile |-> Some(result), threw |-> out.threw,
                response |-> out.response,
                handledLast |-> lastEvent.handledLast]
    /\ inflight' = inflight \ {call}
    /\ sessionProjects' = StoreAfterCompile(sessionProjects, call)
    /\ UNCHANGED handled
    /\ UNCHANGED serverFrame

ServerNext ==
    \/ \E c \in ToolCalls : Handle(c.tool, c.sessionId, c.rawParams)
    \/ \E call \in inflight :
          \E entries \in EntryOrders(CompileFiles(call, inflight)),
             ambient \in AmbientChoices(call.parsed.files) :
              FinishCompile(call, entries, ambient)

ServerSpec == ServerInit /\ [][ServerNext]_vars

----------------------------------------------------------------------------
(* Claims about the tool handlers (checked under ServerSpec).              *)

HandlerRan == lastEvent.kind = "handle"
CompileEnded == lastEvent.kind = "finish"
\* the store as the handler found it, after its resetProject if it had one
StoreAfterReset ==
    IF Truthy(lastEvent.rawParams.resetProject)
    THEN clearSessionProject(lastEvent.before, lastEvent.sessionId)
    ELSE lastEvent.before
\* an update_video call came out with no file map or an empty one
UpdateWithoutFiles ==
    /\ HandlerRan
    /\ lastEvent.tool = "update_video"
    /\ \/ lastEvent.resolvedFiles = Undefined
       \/ DOMAIN Val(lastEvent.resolvedFiles) = {}
\* the response is the error artifact carrying this message
IsErrorArtifact(response, message) ==
    /\ IsDefined(response)
    /\ Val(response).compileError = Some(message)
    /\ Val(response).bundle = ERROR_FALLBACK_BUNDLE
\* the call of the last step is suspended at its compile
LastCallInFlight == \E c \in inflight : c.order = lastEvent.order

\* C11 as stated: an update_video request whose resolved file map is absent or
\* empty returns the error artifact "No project files available...", stores
\* no default project, starts no compile and leaves the session store as it
\* was.
C11_NoFilesStoreUntouched ==
    UpdateWithoutFiles
    => /\ \/ IsErrorArtifact(lastEvent.response, NoFilesReuse)
          \/ IsErrorArtifact(lastEvent.response, NoFilesNoReuse)
       /\ lastEvent.stored = Undefined
       /\ ~lastEvent.suspended /\ ~LastCallInFlight
       /\ sessionProjects = lastEvent.before

\* C11 as amended: an update_video request whose resolved file map is absent
\* or empty returns the error artifact "No project files available..." (the
\* variant chosen by usePreviousProject), stores no project and starts no
\* compile; the store is as it was, except that resetProject = true has
\* removed the session's own record.
C11_NoFilesNothingStored ==
    UpdateWithoutFiles
    => /\ IsErrorArtifact(lastEvent.response,
              IF lastEvent.rawParams.usePreviousProject = Some(FALSE)
              THEN NoFilesNoReuse ELSE NoFilesReuse)
       /\ Val(lastEvent.response).meta = DEFAULT_META
       /\ lastEvent.stored = Undefined
       /\ ~lastEvent.suspended /\ ~LastCallInFlight
       /\ sessionProjects = StoreAfterReset
       /\ \A s \in MapKeySet(sessionProjects) :
              MapGet(sessionProjects, s) = MapGet(lastEvent.before, s)

\* deleteFiles took every file of the stored project: the call was refused
\* and the stored project is still there
C11_Witness ==
    /\ UpdateWithoutFiles
    /\ IsDefined(lastEvent.rawParams.deleteFiles)
    /\ IsDefined(lastEvent.previous)
    /\ lastEvent.resolvedFiles = Some(EmptyMap)
    /\ IsErrorArtifact(lastEvent.response, NoFilesReuse)
    /\ MapGet(sessionProjects, lastEvent.sessionId) = lastEvent.previous

\* C16: every response artifact has a meta with the six fields, a non-empty
\* bundle, defaultProps and inputProps; it has a compileError exactly when its
\* bundle is the fallback bundle; after a compile that succeeded it has the
\* compiled bundle and no compileError.
C16_ArtifactWellFormed ==
    (lastEvent.kind # "none" /\ IsDefined(lastEvent.response))
    => LET artifact == Val(lastEvent.response)
       IN  /\ DOMAIN artifact =
                 {"meta", "bundle", "defaultProps", "inputProps", "compileError"}
           /\ DOMAIN artifact.meta = MetaFields
           /\ artifact.bundle # <<>>
           /\ IsDefined(artifact.compileError)
              <=> artifact.bundle = ERROR_FALLBACK_BUNDLE
           /\ (CompileEnded /\ ~Val(lastEvent.compile).threw)
              => /\ artifact.bundle = Val(lastEvent.compile).bundle
                 /\ artifact.compileError = Undefined
           /\ (CompileEnded /\ Val(lastEvent.compile).threw)
              => artifact.bundle = ERROR_FALLBACK_BUNDLE

\* a compile of the entry and the file it imports succeeded: the artifact
\* carries the bundle of the two modules
C16_Witness ==
    /\ CompileEnded
    /\ ~Val(lastEvent.compile).threw
    /\ Val(lastEvent.response).bundle = << <<"v", "a", "r">>, VideoPath, SceneTsx >>
    /\ Val(lastEvent.response).compileError = Undefined

\* the causes of failure C17 lists, as far as a request shows them
FilesMalformed == ~FilesSchemaAccepts(lastEvent.rawParams.files)
ImportsMissingScene ==
    /\ VideoPath \in DOMAIN Val(lastEvent.resolvedFiles)
    /\ Val(lastEvent.resolvedFiles)[VideoPath] = ImportsScene
    /\ SceneTsx \notin DOMAIN Val(lastEvent.resolvedFiles)
EntryDoesNotParse ==
    /\ VideoPath \in DOMAIN Val(lastEvent.resolvedFiles)
    /\ Val(lastEvent.resolvedFiles)[VideoPath] = BrokenText

C18_StoreAfterCompile ==
    (lastEvent.kind # "none" /\ IsDefined(lastEvent.stored))
    => IsDefined(lastEvent.compile)

\* C18 as amended: within one request the steps are resolve, store, compile,
\* respond.  When the handler reaches its compile the store already holds the
\* request's project and there is neither a compile outcome nor a response;
\* when the compile ends the response is built and the store is not written.
C18_StoreBeforeCompile ==
    /\ (HandlerRan /\ lastEvent.suspended)
       => /\ IsDefined(lastEvent.stored)
          /\ MapGet(sessionProjects, lastEvent.sessionId) = lastEvent.stored
          /\ sessionProjects =
                 rememberSessionProject(StoreAfterReset, lastEvent.sessionId,
                                        Val(lastEvent.stored))
          /\ lastEvent.compile = Undefined
          /\ lastEvent.response = Undefined
          /\ LastCallInFlight
    /\ CompileEnded
       => /\ sessionProjects = lastEvent.before
          /\ lastEvent.stored = Undefined
          /\ IsDefined(lastEvent.compile)
          /\ IsDefined(lastEvent.response)
          /\ ~LastCallInFlight

\* a compile that threw has ended: the project that failed is in the store,
\* put there before the compile
C18_Witness ==
    /\ CompileEnded
    /\ Val(lastEvent.compile).threw
    /\ IsDefined(MapGet(sessionProjects, lastEvent.sessionId))
    /\ Val(MapGet(sessionProjects, lastEvent.sessionId)).files
          = Val(lastEvent.resolvedFiles)
    /\ sessionProjects = lastEvent.before

\* an update_video request in merge mode that brings files and nothing else
PlainMerge(rawParams) ==
    /\ IsDefined(rawParams.files)
    /\ rawParams.deleteFiles = Undefined
    /\ rawParams.updateMode = Undefined
    /\ rawParams.usePreviousProject = Undefined
    /\ ~Truthy(rawParams.resetProject)

\* C19 as stated: the read-modify-write of an update request is not atomic:
\* its read (getSessionProject) and its write (rememberSessionProject) lie on
\* the two sides of the suspension point, so that an update suspended at its
\* compile has not written the store yet and a concurrent update of the same
\* session reads the project without the first one's file.
C19_WriteAfterSuspension ==
    (HandlerRan /\ lastEvent.tool = "update_video" /\ lastEvent.suspended)
    => /\ sessionProjects = StoreAfterReset
       /\ \A c \in inflight :
              ( /\ c.order + 1 = lastEvent.order
                /\ c.sessionId = lastEvent.sessionId
                /\ c.tool = "update_video" /\ PlainMerge(c.rawParams) )
              => \/ lastEvent.previous = Undefined
                 \/ ~(DOMAIN Val(c.rawParams.files)
                        \subseteq DOMAIN Val(lastEvent.previous).files)

\* C19 as amended: the read-modify-write of an update request is atomic with
\* respect to other requests: the handler reads, resolves and writes before
\* it suspends, and the end of a compile writes nothing.  So when an update
\* in merge mode is handled while the update handled just before it, for the
\* same session, is still compiling, it reads the project that one stored,
\* and the stored project then has the files of both.
C19_NoLostUpdate ==
    /\ CompileEnded => sessionProjects = lastEvent.before
    /\ \A c \in inflight :
           ( /\ HandlerRan /\ lastEvent.suspended
             /\ lastEvent.tool = "update_video" /\ PlainMerge(lastEvent.rawParams)
             /\ c.order + 1 = lastEvent.order
             /\ c.sessionId = lastEvent.sessionId )
           => /\ IsDefined(lastEvent.previous)
              /\ Val(lastEvent.previous).files = c.parsed.files
              /\ LET files ==
                       Val(MapGet(sessionProjects, lastEvent.sessionId)).files
                 IN  /\ DOMAIN c.parsed.files \subseteq DOMAIN files
                     /\ \A k \in DOMAIN Val(lastEvent.rawParams.files) :
                            /\ k \in DOMAIN files
                            /\ files[k] = Val(lastEvent.rawParams.files)[k]

\* two updates of one session that had no record are both compiling, the
\* first brought the entry file, the second the scene: the store has both
C19_Witness ==
    /\ HandlerRan /\ lastEvent.suspended
    /\ MapKeys(lastEvent.before) = <<lastEvent.sessionId>>
    /\ lastEvent.order = 2
    /\ lastEvent.rawParams = SecondFile
    /\ \E c \in inflight :
           /\ c.order = 1 /\ c.tool = "update_video"
           /\ c.sessionId = lastEvent.sessionId
           /\ c.rawParams = OneFile
    /\ Cardinality(inflight) = 2
    /\ DOMAIN Val(MapGet(sessionProjects, lastEvent.sessionId)).files
          = {VideoPath, SceneTsx}

\* the step that put its session into a store that was full without it
EvictingStep ==
    /\ IsDefined(lastEvent.stored)
    /\ ~MapHas(StoreAfterReset, lastEvent.sessionId)
    /\ MapSize(StoreAfterReset) >= MAX_SESSION_PROJECTS

\* C20: a step taken for session A leaves the record of every other session B
\* as it was (files, metadata and props), unless the step put A into a full
\* store, in which case the oldest record may be gone.
C20_OtherSessionsUntouched ==
    lastEvent.kind # "none"
    => \A B \in MapKeySet(lastEvent.before) \cup MapKeySet(sessionProjects) :
           B # lastEvent.sessionId
           => \/ MapGet(sessionProjects, B) = MapGet(lastEvent.before, B)
              \/ /\ EvictingStep
                 /\ B = MapKeys(lastEvent.before)[1]
                 /\ MapGet(sessionProjects, B) = Undefined

\* a new session was put into the full store: the oldest session is gone and
\* the other one has its record as before
C20_Witness ==
    /\ HandlerRan /\ EvictingStep
    /\ lastEvent.sessionId = NewSession
    /\ MapHas(lastEvent.before, ResidentSession)
    /\ ~MapHas(sessionProjects, ResidentSession)
    /\ \E B \in MapKeySet(sessionProjects) :
           /\ B # NewSession
           /\ MapGet(sessionProjects, B) = MapGet(lastEvent.before, B)

----------------------------------------------------------------------------
(* Claims about the life of a session record.  They are stated on the      *)
(* store call that ran last: lastOp.store is the Map before the call and   *)
(* sessionProjects the Map after it.                                       *)

StoreBefore == lastOp.store
\* the keys of a Map other than id, in the Map's order
KeysWithout(m, id) == SelectSeq(MapKeys(m), LAMBDA k : k # id)
ClearRan == lastOp.op = "clear"
GetRan == lastOp.op = "get"
RememberRan == lastOp.op = "remember"

\* C21: clearSessionProject(id) leaves id absent whether or not it was
\* present, keeps every other session's record and the order of the
\* remaining keys; getSessionProject(id) returns null for an absent id and
\* leaves the store as it was.
C21_ClearAndGetAreTotal ==
    /\ ClearRan =>
          /\ ~MapHas(sessionProjects, lastOp.id)
          /\ MapKeys(sessionProjects) = KeysWithout(StoreBefore, lastOp.id)
          /\ \A k \in MapKeySet(StoreBefore) \ {lastOp.id} :
                 MapGet(sessionProjects, k) = MapGet(StoreBefore, k)
    /\ GetRan =>
          /\ sessionProjects = StoreBefore
          /\ (~MapHas(StoreBefore, lastOp.id) => lastOp.returned = Undefined)

\* a get of an absent id on a full store, which it answers with null
C21_Witness ==
    /\ GetRan
    /\ lastOp.id # ""
    /\ ~MapHas(StoreBefore, lastOp.id)
    /\ MapSize(StoreBefore) = MAX_SESSION_PROJECTS
    /\ lastOp.returned = Undefined

\* the call evicted k for capacity: a remember of another, new id on a
\* full store
EvictedForCapacity(k) ==
    /\ RememberRan
    /\ lastOp.id \notin {"", k}
    /\ ~MapHas(StoreBefore, lastOp.id)
    /\ MapSize(StoreBefore) = MAX_SESSION_PROJECTS

\* C22: a remember of a non-empty id leaves exactly the remembered project
\* under that id (created if absent, replaced as a whole if present); a get
\* returns the stored record; and a record that was present is still present
\* and unaltered after any call, unless the call was a clear or a remember
\* of its own id, or it was evicted for capacity.
C22_RecordLifecycle ==
    /\ (RememberRan /\ lastOp.id # "")
          => MapGet(sessionProjects, lastOp.id) = lastOp.project
    /\ GetRan => lastOp.returned = MapGet(StoreBefore, lastOp.id)
    /\ \A k \in MapKeySet(StoreBefore) :
          \/ MapGet(sessionProjects, k) = MapGet(StoreBefore, k)
          \/ (ClearRan /\ lastOp.id = k)
          \/ (RememberRan /\ lastOp.id = k)
          \/ (EvictedForCapacity(k) /\ ~MapHas(sessionProjects, k))

\* a remember replaced the different record its id had, next to an other
\* session's record, which it left alone
C22_Witness ==
    /\ RememberRan
    /\ MapHas(StoreBefore, lastOp.id)
    /\ MapGet(StoreBefore, lastOp.id) # lastOp.project
    /\ MapGet(sessionProjects, lastOp.id) = lastOp.project
    /\ \E k \in MapKeySet(StoreBefore) \ {lastOp.id} :
           MapGet(sessionProjects, k) = MapGet(StoreBefore, k)

----------------------------------------------------------------------------
(* The single-tool server: create_video takes its files as a JSON string   *)
(* and always merges with the session's stored project.  A JSON string is  *)
(* a record of what JSON.parse makes of it: kind "malformed" (parse        *)
(* throws), "null", "array" or "object" with the object's members.         *)

JsonText(kind, members) == [kind |-> kind, members |-> members]
JsonObject(members) == JsonText("object", members)

\* ctx.session?.sessionId ?? "default"; ctx is the optional session id
SingleSessionId(ctx) == Coalesce(ctx, "default")

FilesNotObject == ErrorText("files must be a JSON object like", NoMessage)
FilesNotJson == ErrorText("files must be a valid JSON string, e.g.", NoMessage)
FilesEmpty == ErrorText("files must contain at least one file entry.", NoMessage)

\* mutant of MergeStoredFiles: the stored files win over the request's
MergeRequestUnder(previous, files) ==
    IF IsDefined(previous) THEN JsSpread(files, Val(previous).files) ELSE files

\* previous ? { ...previous.files, ...files } : files
MergeStoredFiles(previous, files) ==
    IF IsDefined(previous) THEN JsSpread(Val(previous).files, files) ELSE files

\* previous?.field
OptionalField(previous, field) ==
    IF IsDefined(previous) THEN Some(Val(previous)[field]) ELSE Undefined

\* rawParams.field ?? previous?.field
RequestOrStored(rawParams, previous, field) ==
    IF IsDefined(rawParams[field]) THEN rawParams[field]
    ELSE OptionalField(previous, field)

\* the create_video handler of the single-tool server
createVideoSingle(store, ctx, rawParams) ==
    LET sessionId == SingleSessionId(ctx)
        json == rawParams.files
        files == json.members
        previous == getSessionProject(store, sessionId)
        project ==
            [title |-> RequestOrStored(rawParams, previous, "title"),
             compositionId |-> OptionalField(previous, "compositionId"),
             width |-> RequestOrStored(rawParams, previous, "width"),
             height |-> RequestOrStored(rawParams, previous, "height"),
             fps |-> RequestOrStored(rawParams, previous, "fps"),
             durationInFrames |->
                 RequestOrStored(rawParams, previous, "durationInFrames"),
             entryFile |-> RequestOrStored(rawParams, previous, "entryFile"),
             files |-> Some(MergeStoredFiles(previous, files)),
             defaultProps |-> OptionalField(previous, "defaultProps"),
             inputProps |-> OptionalField(previous, "inputProps")]
        parseResult == safeParse(project)
    IN  IF json.kind = "malformed"
        THEN Rejected(store, FilesNotJson, Undefined, Undefined,
                      Undefined, Undefined)
        ELSE IF json.kind # "object"
        THEN Rejected(store, FilesNotObject, Undefined, Undefined,
                      Undefined, Undefined)
        ELSE IF DOMAIN files = {}
        THEN Rejected(store, FilesEmpty, Undefined, Undefined,
                      Undefined, Undefined)
        ELSE IF ~parseResult.success
        THEN Rejected(store, InvalidInput, Undefined, Undefined,
                      previous, Some(MergeStoredFiles(previous, files)))
        ELSE compileAndRespondWithProject(store, Val(parseResult.data),
                 sessionId, previous, Some(MergeStoredFiles(previous, files)))

SingleRequest(files, entryFile, title, fps, width) ==
    [files |-> files, entryFile |-> entryFile, title |-> title,
     durationInFrames |-> Undefined, fps |-> fps, width |-> width,
     height |-> Undefined]

JustFiles(files) ==
    SingleRequest(files, Undefined, Undefined, Undefined, Undefined)

\* requests made of the single tool: the entry file alone; a second file with
\* a title and a width; the entry file again with entryFile and fps; an empty
\* object; text that is not JSON; an array; a member that is not a string;
\* a width of zero; an fps of Infinity
SingleRequests ==
    { JustFiles(JsonObject(VideoPath :> GoodText)),
      SingleRequest(JsonObject(SceneTsx :> GoodText), Undefined, Some("Two"),
                    Undefined, Some(640)),
      SingleRequest(JsonObject(VideoPath :> ImportsScene), Some(VideoPath),
                    Undefined, Some(24), Undefined),
      JustFiles(JsonObject(EmptyMap)),
      JustFiles(JsonText("malformed", EmptyMap)),
      JustFiles(JsonText("array", EmptyMap)),
      JustFiles(JsonObject(VideoPath :> NotAString)),
      SingleRequest(JsonObject(VideoPath :> GoodText), Undefined, Undefined,
                    Undefined, Some(0)),
      SingleRequest(JsonObject(VideoPath :> GoodText), Undefined, Undefined,
                    Some(PositiveInfinity), Undefined) }

\* a transport without a session, and one session
SingleContexts == { Undefined, Some(ResidentSession) }

SingleInit ==
    /\ sessionProjects = <<>>
    /\ lastOp = NoOp
    /\ clock = 0
    /\ lastRemember = [s \in SessionIds |-> 0]
    /\ lastUse = [s \in SessionIds |-> 0]
    /\ InitResolveIdle
    /\ InitImportIdle
    /\ InitCompileIdle
    /\ InitServerIdle
    /\ InitWidgetIdle /\ InitPathIdle /\ InitObjectsIdle
    /\ InitViewIdle

\* a create_video call arrives and its handler runs up to its return or its
\* await
HandleSingle(ctx, rawParams) ==
    /\ handled < NumCalls
    /\ \E out \in { createVideoSingle(sessionProjects, ctx, rawParams) } :
           /\ sessionProjects' = out.store
           /\ inflight' =
                  IF out.suspended
                  THEN inflight \cup
                         { [order |-> handled + 1, tool |-> "create_video",
                            sessionId |-> SingleSessionId(ctx),
                            rawParams |-> rawParams,
                            parsed |-> Val(out.parsed)] }
                  ELSE inflight
           /\ lastEvent' =
                  [kind |-> "handle", order |-> handled + 1,
                   tool |-> "create_video",
                   sessionId |-> SingleSessionId(ctx), rawParams |-> rawParams,
                   before |-> sessionProjects, previous |-> out.previous,
                   resolvedFiles |-> out.resolvedFiles,
                   suspended |-> out.suspended, stored |-> out.stored,
                   compile |-> Undefined, threw |-> FALSE,
                   response |-> out.response,
                   handledLast |-> [order |-> handled + 1,
                                    sessionId |-> SingleSessionId(ctx),
                                    stored |-> out.stored]]
    /\ handled' = handled + 1
    /\ UNCHANGED serverFrame

SingleNext ==
    \/ \E ctx \in SingleContexts, r \in SingleRequests : HandleSingle(ctx, r)
    \/ \E call \in inflight :
          \E entries \in EntryOrders(CompileFiles(call, inflight)),
             ambient \in AmbientChoices(call.parsed.files) :
              FinishCompile(call, entries, ambient)

SingleSpec == SingleInit /\ [][SingleNext]_vars

\* the stored project a create_video call found for its session
StoredBefore == getSessionProject(lastEvent.before, lastEvent.sessionId)
CarriedFields ==
    {"title", "width", "height", "fps", "durationInFrames", "entryFile"}

\* C23: a create_video call of the single-tool server that finds a stored
\* project for its session and goes on to the compile stores the request's
\* files over the stored files (the request wins per key, stored files it
\* does not mention are kept, no other key appears) and, for each of title,
\* width, height, fps, durationInFrames and entryFile, the request's value
\* if it gives one and the stored project's value if it does not.
C23_SingleToolMerges ==
    (HandlerRan /\ lastEvent.suspended /\ IsDefined(StoredBefore)) =>
        LET req == lastEvent.rawParams
            given == req.files.members
            old == Val(StoredBefore)
            new == Val(lastEvent.stored)
        IN  /\ DOMAIN new.files = DOMAIN old.files \cup DOMAIN given
            /\ \A k \in DOMAIN given : new.files[k] = given[k]
            /\ \A k \in DOMAIN old.files \ DOMAIN given :
                   new.files[k] = old.files[k]
            /\ \A f \in CarriedFields :
                   new[f] = IF IsDefined(req[f]) THEN Val(req[f]) ELSE old[f]
            /\ MapGet(sessionProjects, lastEvent.sessionId) = Some(new)

\* a call that gives only the entry file and an fps, in a session whose
\* stored project has another file and a title and width of its own
C23_Witness ==
    /\ HandlerRan /\ lastEvent.suspended /\ IsDefined(StoredBefore)
    /\ lastEvent.rawParams.files.members = (VideoPath :> ImportsScene)
    /\ Val(StoredBefore).files = (SceneTsx :> GoodText)
    /\ Val(StoredBefore).title = "Two"
    /\ Val(lastEvent.stored).title = "Two"
    /\ Val(lastEvent.stored).width = 640
    /\ Val(lastEvent.stored).fps = 24
    /\ Val(lastEvent.stored).files =
           (VideoPath :> ImportsScene @@ SceneTsx :> GoodText)

----------------------------------------------------------------------------
(* The widget.  An object of the page is named by its identity; a module   *)
(* namespace is its identity and its members.  The text of a bundle is     *)
(* kept as what evaluating it does: the runtime modules whose shims it     *)
(* holds, and what its exports are.                                        *)

Namespace(id, members) == [id |-> id, members |-> members]
\* ns[name]: a member, or undefined
Member(ns, name) ==
    IF name \in DOMAIN ns.members THEN ns.members[name] ELSE "undefined"

ReactName == <<"r", "e", "a", "c", "t">>
RemotionName == <<"r", "e", "m", "o", "t", "i", "o", "n">>
JsxRuntimeName == <<"r", "e", "a", "c", "t", "/", "j", "s", "x", "-", "r", "u", "n", "t", "i", "m", "e">>
JsxDevRuntimeName == <<"r", "e", "a", "c", "t", "/", "j", "s", "x", "-", "d", "e", "v", "-", "r", "u", "n", "t", "i", "m", "e">>

\* the packages as the widget's page imports them
runtimePackages ==
    ReactName :> Namespace("page:react",
                     ("default" :> "page:React" @@ "useState" :> "page:useState"))
    @@ JsxRuntimeName :> Namespace("page:jsx-runtime", ("jsx" :> "page:jsx"))
    @@ JsxDevRuntimeName :>
           Namespace("page:jsx-dev-runtime", ("jsxDEV" :> "page:jsxDEV"))
    @@ RemotionName :> Namespace("page:remotion",
                           ("AbsoluteFill" :> "page:AbsoluteFill"
                            @@ "interpolate" :> "page:interpolate"))

\* the packages as the server imports them: other objects under the same
\* names, react with the "module.exports" key of a CommonJS namespace
ServerRuntimeModules ==
    ReactName :> Namespace("server:react",
                     ("default" :> "server:React"
                      @@ "useState" :> "server:useState"
                      @@ "module.exports" :> "server:React"))
    @@ JsxRuntimeName :> Namespace("server:jsx-runtime", ("jsx" :> "server:jsx"))
    @@ JsxDevRuntimeName :>
           Namespace("server:jsx-dev-runtime", ("jsxDEV" :> "server:jsxDEV"))
    @@ RemotionName :> Namespace("server:remotion",
                           ("AbsoluteFill" :> "server:AbsoluteFill"
                            @@ "interpolate" :> "server:interpolate"))

\* IDENTIFIER_PATTERN.test(name), for the names that occur
IsIdentifier(name) == name # "module.exports"

\* createRuntimeShim: the module the shim reads and the names it exports
\* besides default
createRuntimeShim(moduleName, moduleNamespace) ==
    [module |-> moduleName,
     names |-> { n \in DOMAIN moduleNamespace.members :
                   n # "default" /\ IsIdentifier(n) }]

SHIM_MODULE_SOURCES ==
    [m \in RUNTIME_MODULES |-> createRuntimeShim(m, ServerRuntimeModules[m])]

\* a value of globalThis[RUNTIME_PACKAGE_GLOBAL]
GlobalValue(isObject, members) == [isObject |-> isObject, members |-> members]

\* what the global holds before the widget's module is loaded: nothing, a
\* value that is not an object, or an object another script filled
ExistingGlobals ==
    { Undefined,
      Some(GlobalValue(FALSE, runtimePackages)),
      Some(GlobalValue(TRUE,
               ReactName :> Namespace("other:react",
                                ("default" :> "other:React"
                                 @@ "useState" :> "other:useState"))
               @@ <<"l", "o", "d", "a", "s", "h">> :>
                      Namespace("other:lodash", ("default" :> "other:_")))) }

\* ensureRuntimePackages, run once when the widget's module is loaded
ensureRuntimePackages(existing) ==
    IF IsDefined(existing) /\ Val(existing).isObject
    THEN Some(GlobalValue(TRUE, JsSpread(Val(existing).members, runtimePackages)))
    ELSE Some(GlobalValue(TRUE, runtimePackages))

\* mutant of EvaluateShim: the shim exports the objects of the build
EvaluateShimInlined(shim, global) ==
    [threw |-> FALSE,
     runtime |-> ServerRuntimeModules[shim.module].id,
     exports |-> [n \in shim.names \cup {"default"} |->
                     Member(ServerRuntimeModules[shim.module], n)]]

\* evaluating a shim module: modules?.[moduleName], the throw when it is
\* missing, export default runtime.default, export const name = runtime.name
EvaluateShim(shim, global) ==
    IF \/ ~IsDefined(global)
       \/ ~Val(global).isObject
       \/ shim.module \notin DOMAIN Val(global).members
    THEN [threw |-> TRUE, runtime |-> "undefined",
          exports |-> [n \in shim.names \cup {"default"} |-> "undefined"]]
    ELSE [threw |-> FALSE,
          runtime |-> Val(global).members[shim.module].id,
          exports |-> [n \in shim.names \cup {"default"} |->
                          Member(Val(global).members[shim.module], n)]]

\* the text of a bundle: the runtime modules it imports, whether it assigns
\* its exports object, and whether exports.default is a function
BundleText(shims, hasExports, defaultIsFunction) ==
    [shims |-> shims, hasExports |-> hasExports,
     defaultIsFunction |-> defaultIsFunction]

\* compileBundle: an error, or the component; observed is what the shims of
\* the bundle exported
compileBundle(bundleCode, global) ==
    LET observed == [m \in bundleCode.shims |->
                        EvaluateShim(SHIM_MODULE_SOURCES[m], global)]
    IN  IF \E m \in bundleCode.shims : observed[m].threw
        THEN [error |-> Some("Missing runtime module"), observed |-> observed]
        ELSE IF ~bundleCode.hasExports
        THEN [error |-> Some("bundle did not return exports."),
              observed |-> observed]
        ELSE IF ~bundleCode.defaultIsFunction
        THEN [error |-> Some("entry module must export a default React component"),
              observed |-> observed]
        ELSE [error |-> Undefined, observed |-> observed]

\* a JSON value that is or is not a plain object, with its members
PropsValue(isRecord, members) == [isRecord |-> isRecord, members |-> members]
\* a JSON value that is or is not a string; blank is a string of white space
BundleValue(isString, blank, code) ==
    [isString |-> isString, blank |-> blank, code |-> code]

\* isRecord(value) ? value : {}
toPropsObject(value) == IF value.isRecord THEN value.members ELSE EmptyMap

positiveNumberOrFallback(value, fallback) ==
    IF IsFinite(value) /\ value > 0 THEN value ELSE fallback

\* a title or compositionId that is a string of more than white space ("" is
\* the blank one)
TextOrFallback(value, fallback) == IF value # "" THEN value ELSE fallback

\* parseVideoProject of the widget's videoProject prop: null, or the data
parseVideoProject(raw) ==
    IF ~IsDefined(raw) THEN Undefined
    ELSE IF Val(raw).kind # "object" THEN Undefined
    ELSE LET parsed == Val(raw).members
         IN  IF \/ ~IsDefined(parsed.meta)
                \/ ~parsed.bundle.isString
                \/ parsed.bundle.blank
             THEN Undefined
             ELSE Some(
               [meta |->
                  [title |-> TextOrFallback(Val(parsed.meta).title, "Untitled"),
                   compositionId |->
                       TextOrFallback(Val(parsed.meta).compositionId, "Main"),
                   width |-> positiveNumberOrFallback(Val(parsed.meta).width, 1920),
                   height |-> positiveNumberOrFallback(Val(parsed.meta).height, 1080),
                   fps |-> positiveNumberOrFallback(Val(parsed.meta).fps, 30),
                   durationInFrames |->
                       positiveNumberOrFallback(Val(parsed.meta).durationInFrames,
                                                150)],
                bundle |-> parsed.bundle.code,
                defaultProps |-> toPropsObject(parsed.defaultProps),
                inputProps |-> toPropsObject(parsed.inputProps),
                compileError |-> IF parsed.compileError # ""
                                 THEN Some(parsed.compileError) ELSE Undefined])

\* mutant of mergeProps: the defaults win
mergePropsDefaultsLast(defaultProps, inputProps) ==
    JsSpread(inputProps, defaultProps)

\* { ...defaultProps, ...inputProps }
mergeProps(defaultProps, inputProps) == JsSpread(defaultProps, inputProps)

\* the videoProject texts the host hands the widget
ProjectJson(meta, bundle, defaultProps, inputProps, compileError) ==
    Some(JsonObject([meta |-> meta, bundle |-> bundle,
                     defaultProps |-> defaultProps, inputProps |-> inputProps,
                     compileError |-> compileError]))

WidgetMeta ==
    Some([title |-> "One", compositionId |-> "", width |-> 1280, height |-> 0,
          fps |-> 30, durationInFrames |-> 120])

\* bundles: react and remotion; react and the jsx runtime; one that leaves
\* no exports; one whose default export is not a function
WidgetBundles ==
    { BundleText({ReactName, RemotionName}, TRUE, TRUE),
      BundleText({ReactName, JsxRuntimeName}, TRUE, TRUE),
      BundleText({ReactName}, FALSE, FALSE),
      BundleText({RemotionName}, TRUE, FALSE) }

FallbackBundle == BundleText({}, TRUE, TRUE)

\* pairs of defaultProps and inputProps: overlapping keys; no defaults; a
\* defaultProps that is not an object
WidgetPropsPairs ==
    { <<PropsValue(TRUE, ("a" :> 1 @@ "b" :> 2)),
        PropsValue(TRUE, ("b" :> 3 @@ "c" :> 4))>>,
      <<PropsValue(TRUE, EmptyMap), PropsValue(TRUE, ("a" :> 5))>>,
      <<PropsValue(FALSE, EmptyMap), PropsValue(TRUE, ("c" :> 6))>> }

WidgetInputs ==
    { ProjectJson(WidgetMeta, BundleValue(TRUE, FALSE, b), p[1], p[2], "") :
        b \in WidgetBundles, p \in WidgetPropsPairs }
    \cup
    { Undefined,
      Some(JsonText("malformed", EmptyMap)),
      Some(JsonText("array", EmptyMap)),
      ProjectJson(Undefined, BundleValue(TRUE, FALSE, FallbackBundle),
                  PropsValue(TRUE, EmptyMap), PropsValue(TRUE, EmptyMap), ""),
      ProjectJson(WidgetMeta, BundleValue(TRUE, TRUE, FallbackBundle),
                  PropsValue(TRUE, EmptyMap), PropsValue(TRUE, EmptyMap), ""),
      ProjectJson(WidgetMeta, BundleValue(TRUE, FALSE, FallbackBundle),
                  PropsValue(TRUE, ("a" :> 1)), PropsValue(TRUE, ("a" :> 7)),
                  "Project compilation error") }

WidgetInit ==
    /\ InitStore
    /\ InitResolveIdle
    /\ InitImportIdle
    /\ InitCompileIdle
    /\ InitServerIdle /\ InitPathIdle /\ InitObjectsIdle
    /\ InitViewIdle
    /\ runtimeGlobal \in { ensureRuntimePackages(e) : e \in ExistingGlobals }
    /\ widgetData = Undefined
    /\ compiled = Undefined
    /\ evaluations = {}
    /\ playerProps = Undefined

\* the dependencies of the useMemo around compileBundle are unchanged
SameBundleAsBefore(data) ==
    /\ IsDefined(widgetData) /\ IsDefined(data)
    /\ Val(widgetData).bundle = Val(data).bundle
    /\ Val(widgetData).compileError = Val(data).compileError

\* the host sets the widget's props (no call pending) and the widget renders
Render(videoProject) ==
    LET data == parseVideoProject(videoProject)
        skip == ~IsDefined(data) \/ IsDefined(Val(data).compileError)
        reuse == SameBundleAsBefore(data)
        result == compileBundle(Val(data).bundle, runtimeGlobal)
        nowCompiled == IF skip THEN Undefined
                       ELSE IF reuse THEN compiled
                       ELSE Some(result)
    IN  /\ widgetData' = data
        /\ compiled' = nowCompiled
        /\ evaluations' =
               IF skip \/ reuse THEN evaluations
               ELSE evaluations \cup
                      { [bundle |-> Val(data).bundle, observed |-> result.observed] }
        /\ playerProps' =
               IF IsDefined(nowCompiled) /\ ~IsDefined(Val(nowCompiled).error)
               THEN Some(mergeProps(Val(data).defaultProps, Val(data).inputProps))
               ELSE Undefined
        /\ UNCHANGED runtimeGlobal
        /\ UNCHANGED notWidgetVars

WidgetNext == \E v \in WidgetInputs : Render(v)

WidgetSpec == WidgetInit /\ [][WidgetNext]_vars

----------------------------------------------------------------------------
(* Claims about the widget (checked under WidgetSpec).                     *)

Registry == Val(runtimeGlobal).members

\* C24: every bundle evaluated in the widget found, for each runtime module
\* it imports, the object that is the registry's entry for that module now
\* (the entry was not replaced since), every export of its shim is that
\* entry's member of the same name, and two evaluated bundles that import
\* the same module got the same objects.
C24_ShimIdentity ==
    /\ \A e \in evaluations : \A m \in DOMAIN e.observed :
          /\ ~e.observed[m].threw
          /\ e.observed[m].runtime = Registry[m].id
          /\ \A n \in DOMAIN e.observed[m].exports :
                 e.observed[m].exports[n] = Member(Registry[m], n)
    /\ \A e1, e2 \in evaluations :
          \A m \in DOMAIN e1.observed \cap DOMAIN e2.observed :
              e1.observed[m] = e2.observed[m]

\* two different bundles that import react were evaluated, in a page whose
\* global another script had filled before the widget was loaded
C24_Witness ==
    /\ \E e1, e2 \in evaluations :
          /\ e1.bundle # e2.bundle
          /\ ReactName \in DOMAIN e1.observed \cap DOMAIN e2.observed
          /\ e1.observed[ReactName].exports["useState"] = "page:useState"
    /\ <<"l", "o", "d", "a", "s", "h">> \in DOMAIN Registry

\* C28: whenever the widget shows the player, the props it passes are
\* { ...defaultProps, ...inputProps } of its project data: every key of
\* inputProps with inputProps' value, every key only in defaultProps with
\* defaultProps' value, and no other key.
C28_PlayerPropsMerged ==
    IsDefined(playerProps) =>
        LET d == Val(widgetData).defaultProps
            i == Val(widgetData).inputProps
            p == Val(playerProps)
        IN  /\ DOMAIN p = DOMAIN d \cup DOMAIN i
            /\ \A k \in DOMAIN i : p[k] = i[k]
            /\ \A k \in DOMAIN d \ DOMAIN i : p[k] = d[k]

\* the player is shown with a key only in defaultProps, a key in both and a
\* key only in inputProps
C28_Witness ==
    /\ IsDefined(playerProps)
    /\ Val(widgetData).defaultProps = ("a" :> 1 @@ "b" :> 2)
    /\ Val(widgetData).inputProps = ("b" :> 3 @@ "c" :> 4)
    /\ Val(playerProps) = ("a" :> 1 @@ "b" :> 3 @@ "c" :> 4)

----------------------------------------------------------------------------
(* Claims about what the handlers let into the store.                      *)

NumericFields == {"width", "height", "fps", "durationInFrames"}

\* every record of the store has finite positive numbers and some file
StoreRecordsValid ==
    \A i \in 1..Len(sessionProjects) :
        /\ \A f \in NumericFields :
               /\ IsFinite(sessionProjects[i].value[f])
               /\ sessionProjects[i].value[f] > 0
        /\ DOMAIN sessionProjects[i].value.files # {}

\* the request of the last handler step gives a width that is not a finite
\* positive number
GivesBadWidth ==
    /\ IsDefined(lastEvent.rawParams.width)
    /\ \/ Val(lastEvent.rawParams.width) <= 0
       \/ ~IsFinite(Val(lastEvent.rawParams.width))

\* the last handler step had no file to compile: create_video without files,
\* update_video whose resolved file map is missing or empty
HasNoFiles ==
    IF lastEvent.tool = "create_video"
    THEN \/ ~IsDefined(lastEvent.rawParams.files)
         \/ DOMAIN Val(lastEvent.rawParams.files) = {}
    ELSE \/ ~IsDefined(lastEvent.resolvedFiles)
         \/ DOMAIN Val(lastEvent.resolvedFiles) = {}

\* C25: every record in the store has finite, strictly positive width,
\* height, fps and durationInFrames and a non-empty file map; and a call
\* whose request gives a width that is not finite and positive, or that has
\* no files, returns without reaching rememberSessionProject.
C25_StoredRecordsValid ==
    /\ StoreRecordsValid
    /\ (HandlerRan /\ (GivesBadWidth \/ HasNoFiles)) =>
          /\ ~lastEvent.suspended
          /\ lastEvent.stored = Undefined
          /\ sessionProjects = StoreAfterReset

\* a create_video call with a width of zero in a session that has a record:
\* it is rejected and the record is the valid one from before
C25_Witness ==
    /\ HandlerRan /\ GivesBadWidth
    /\ lastEvent.tool = "create_video"
    /\ Val(lastEvent.rawParams.width) = 0
    /\ IsDefined(lastEvent.response)
    /\ MapHas(sessionProjects, lastEvent.sessionId)
    /\ sessionProjects = lastEvent.before

\* the request of the last handler step has resetProject = true
ResetRequested ==
    /\ IsDefined(lastEvent.rawParams.resetProject)
    /\ Val(lastEvent.rawParams.resetProject)

\* what the handler of the last step does in a server whose store is empty
OnEmptyStore ==
    IF lastEvent.tool = "create_video"
    THEN createVideo(<<>>, lastEvent.sessionId, lastEvent.rawParams)
    ELSE updateVideo(<<>>, lastEvent.sessionId, lastEvent.rawParams)

\* C26: a call with resetProject = true comes out as it would for a session
\* without a record (the same rejection, or the same project stored and sent
\* to the compiler), whatever record the session had; and when the call is
\* rejected the session is left without a record.
C26_ResetComesFirst ==
    (HandlerRan /\ ResetRequested) =>
        /\ lastEvent.suspended = OnEmptyStore.suspended
        /\ lastEvent.stored = OnEmptyStore.stored
        /\ lastEvent.response = OnEmptyStore.response
        /\ lastEvent.previous = Undefined
        /\ lastEvent.suspended =>
               /\ MapGet(sessionProjects, lastEvent.sessionId) = lastEvent.stored
               /\ \E call \in inflight :
                      /\ call.order = lastEvent.order
                      /\ call.parsed = Val(OnEmptyStore.parsed)
        /\ ~lastEvent.suspended => ~MapHas(sessionProjects, lastEvent.sessionId)

\* an update_video call with resetProject and one file, in a session whose
\* record held another file: only the request's file is stored
C26_Witness ==
    /\ HandlerRan /\ ResetRequested
    /\ lastEvent.tool = "update_video"
    /\ MapHas(lastEvent.before, lastEvent.sessionId)
    /\ VideoPath \in DOMAIN Val(MapGet(lastEvent.before, lastEvent.sessionId)).files
    /\ lastEvent.suspended
    /\ DOMAIN Val(lastEvent.stored).files = {SceneTsx}

----------------------------------------------------------------------------
(* Claims about how import specifiers are decided (checked under           *)
(* CompileSpec, on what onResolve answered during the build).              *)

IsRelativeOrAbsolute(path) == StartsWith(path, ".") \/ StartsWith(path, "/")
\* the importer onResolve resolves from: the entry for the stdin text
ImporterOf(r) == IF r.importer = Stdin THEN GivenEntry ELSE r.importer

\* C27: each specifier asked of onResolve is decided by the first rule that
\* matches: a runtime module name goes to the shim namespace; otherwise a
\* specifier that starts with "." or "/" goes to a key of the file map, or
\* fails with an error that names the specifier and the importer; otherwise
\* (a bare specifier) it is left to the ambient package resolver.
C27_ResolutionOrder ==
    CompileCalled =>
        \A r \in Compiled.resolutions :
            IF r.path \in RUNTIME_MODULES
            THEN r.answer.kind = "runtime-shim"
            ELSE IF IsRelativeOrAbsolute(r.path)
            THEN \/ /\ r.answer.kind = "user-file"
                    /\ r.answer.path \in GivenPaths
                 \/ /\ r.answer.kind = "error"
                    /\ r.answer.path = ImporterOf(r)
                    /\ Compiled.threw
                    /\ {r.path, ImporterOf(r)} \subseteq Compiled.message.names
            ELSE r.answer.kind = "ambient"

----------------------------------------------------------------------------
(* Claims about specifiers with an extension (checked under ImportSpec).   *)

\* a relative or absolute specifier whose path carries an extension
ExtendedImport ==
    /\ IsRelativeOrAbsolute(Val(importPath))
    /\ posixExtname(ImportP) # <<>>

\* C29: a relative or absolute specifier that carries an extension resolves
\* to its own normalized path P when P is a key of the file map and fails
\* otherwise, whatever other keys (P + extension, P/index + extension) the
\* map has.
C29_ExtendedIsExact ==
    (ImportCalled /\ ExtendedImport) =>
        ImportResult = IF ImportP \in DOMAIN ImportMap THEN Some(ImportP)
                       ELSE Undefined

\* "./Scene.tsx" fails in a map without /src/Scene.tsx that has both
\* /src/Scene.tsx.ts and /src/Scene.tsx/index.tsx
C29_Witness ==
    /\ ImportCalled /\ ExtendedImport
    /\ ImportP = SceneTsx
    /\ SceneTsx \notin DOMAIN ImportMap
    /\ {SceneTsxTs, SceneTsxIndexTsx} \subseteq DOMAIN ImportMap
    /\ ImportResult = Undefined

----------------------------------------------------------------------------
(* Claims about the compiles of different calls (checked under ServerSpec). *)

\* the file map of the call whose compile ended, as its handler passed it on
OwnFiles == Val(lastEvent.resolvedFiles)
OwnPaths == { normalizeVirtualPath(k) : k \in DOMAIN OwnFiles }
\* the texts the call's own map has for a normalized path
OwnTexts(path) ==
    { OwnFiles[k] : k \in { j \in DOMAIN OwnFiles : normalizeVirtualPath(j) = path } }

\* C30: in the compile of a call, every import that resolves to a virtual
\* file resolves to a path of that call's own normalized file map and loads
\* the text that map has for it, and every module in its bundle is one of
\* those paths, whatever other calls are in flight or were compiled before.
C30_CompileReadsOwnFiles ==
    CompileEnded =>
        LET result == Val(lastEvent.compile)
        IN  /\ \A r \in result.resolutions :
                   r.answer.kind = "user-file" =>
                       /\ r.answer.path \in OwnPaths
                       /\ IsDefined(r.loaded)
                       /\ Val(r.loaded) \in OwnTexts(r.answer.path)
            /\ ~result.threw =>
                   \A i \in 2..Len(result.bundle) : result.bundle[i] \in OwnPaths

\* the compile of a call whose entry imports "./Scene" fails to resolve it
\* while another call, whose files include /src/Scene.tsx, is in flight
C30_Witness ==
    /\ CompileEnded
    /\ Val(lastEvent.compile).threw
    /\ \E r \in Val(lastEvent.compile).resolutions :
           /\ r.answer.kind = "error"
           /\ r.path = <<".", "/", "S", "c", "e", "n", "e">>
    /\ SceneTsx \notin OwnPaths
    /\ \E other \in inflight : SceneTsx \in DOMAIN other.parsed.files

----------------------------------------------------------------------------
(* normalizeVirtualPath on its own (PathSpec): one call on a path drawn    *)
(* from every text of up to MaxPathLen characters that are a letter, a     *)
(* dot, a slash or a backslash.                                            *)

\* length of the longest path given to normalizeVirtualPath
MaxPathLen == 4

PathAlphabet == { "a", ".", "/", "\\" }

PathInputs == UNION { [1..n -> PathAlphabet] : n \in 0..MaxPathLen }

PathInit ==
    /\ InitStore /\ InitResolveIdle /\ InitImportIdle /\ InitCompileIdle
    /\ InitServerIdle /\ InitWidgetIdle /\ InitObjectsIdle /\ InitViewIdle
    /\ givenPath \in { Some(p) : p \in PathInputs }
    /\ normalizedPath = Undefined

Normalize ==
    /\ normalizedPath = Undefined
    /\ normalizedPath' = Some(normalizeVirtualPath(Val(givenPath)))
    /\ UNCHANGED <<givenPath, storeVars, resolveVars, importVars, compileVars,
                   serverVars, widgetVars, objectVars, viewVars>>

PathNext == Normalize

PathSpec == PathInit /\ [][PathNext]_vars

PathNormalized == IsDefined(normalizedPath)

\* the segments of a normalized path after its root; the root has none
SegmentsOf(p) == IF p = <<"/">> THEN <<>> ELSE SplitSegments(Tail(p))

\* other spellings of the same path: a leading slash, backslashes for
\* slashes, a "./" detour and an "a/../" detour
Spellings(p) ==
    { <<"/">> \o p,
      [i \in 1..Len(p) |-> IF p[i] = "/" THEN "\\" ELSE p[i]],
      <<".", "/">> \o p,
      <<"a", "/", ".", ".", "/">> \o p }

\* C39: normalizeVirtualPath is idempotent and canonical: its result begins
\* with "/", has no backslash and no empty, "." or ".." segment, is left
\* unchanged by normalizing it again, and is the same for the other
\* spellings of the path.
C39_NormalizeCanonical ==
    PathNormalized =>
        LET r == Val(normalizedPath)
        IN  /\ Len(r) > 0 /\ r[1] = "/"
            /\ \A i \in 1..Len(r) : r[i] # "\\"
            /\ \A i \in 1..Len(SegmentsOf(r)) :
                   SegmentsOf(r)[i] \notin { <<>>, <<".">>, <<".", ".">> }
            /\ normalizeVirtualPath(r) = r
            /\ \A q \in Spellings(Val(givenPath)) : normalizeVirtualPath(q) = r

----------------------------------------------------------------------------
(* File maps as objects (UpdateSpec).  The store keeps a reference to the  *)
(* files object of a session's record, and getSessionProject hands that    *)
(* same object to resolveProjectInput.  Here a file map is an object on a  *)
(* heap: a sequence of entries in the insertion order of its own keys,     *)
(* reached by its index in heap.  The update_video handler is followed     *)
(* for one session and for the files of its project; the other fields of   *)
(* the request are taken as valid.                                         *)

\* number of update_video calls of the session
MaxUpdates == 3

Entry(path, contents) == [path |-> path, contents |-> contents]

OwnKeys(obj) == { obj[i].path : i \in 1..Len(obj) }

\* obj[key] = value: an own key keeps its place, a new key goes last
ObjSet(obj, key, value) ==
    IF key \in OwnKeys(obj)
    THEN [i \in 1..Len(obj) |->
             IF obj[i].path = key THEN Entry(key, value) ELSE obj[i]]
    ELSE Append(obj, Entry(key, value))

\* the own properties of source copied onto target in source's order
RECURSIVE ObjAssign(_, _, _)
ObjAssign(target, source, i) ==
    IF i > Len(source) THEN target
    ELSE ObjAssign(ObjSet(target, source[i].path, source[i].contents),
                   source, i + 1)

\* { ...a, ...b }
ObjSpread(a, b) == ObjAssign(ObjAssign(<<>>, a, 1), b, 1)

\* delete obj[key]
ObjDelete(obj, key) == SelectSeq(obj, LAMBDA e : e.path # key)

\* key in obj
ObjIn(key, obj) == key \in OwnKeys(obj) \/ key \in ObjectPrototypeKeys

\* mutant of cloneFileMapObject: the object itself is handed back
shareFileMapObject(h, ref) == [heap |-> h, ref |-> ref]

\* cloneFileMap(value): { ...value } is a new object with value's entries
cloneFileMapObject(h, ref) ==
    [heap |-> Append(h, ObjSpread(<<>>, h[ref])), ref |-> Len(h) + 1]

\* the inner loop of deleteFilesFromMap on the object at ref, which is
\* changed in place
DeleteCandidatesAt(h, ref, rawPath) ==
    LET afterRaw == IF ObjIn(rawPath, h[ref])
                    THEN [h EXCEPT ![ref] = ObjDelete(@, rawPath)] ELSE h
        normalized == normalizeVirtualPath(rawPath)
    IN  IF normalized # rawPath /\ ObjIn(normalized, afterRaw[ref])
        THEN [afterRaw EXCEPT ![ref] = ObjDelete(@, normalized)]
        ELSE afterRaw

RECURSIVE deleteFilesFromObject(_, _, _, _)
deleteFilesFromObject(h, ref, deleteFiles, i) ==
    IF i > Len(deleteFiles) THEN h
    ELSE deleteFilesFromObject(DeleteCandidatesAt(h, ref, deleteFiles[i]),
                               ref, deleteFiles, i + 1)

\* the files of resolveProjectInput: inputFiles and baseFiles are optional
\* references; the result is the heap and the reference in project.files
resolveFiles(h, inputFiles, baseFiles, updateMode, deleteFiles) ==
    LET combined ==
            IF IsDefined(inputFiles)
            THEN IF IsDefined(baseFiles) /\ updateMode = "merge"
                 THEN LET under == cloneFileMapObject(h, Val(baseFiles))
                          over == cloneFileMapObject(under.heap, Val(inputFiles))
                      IN  [heap |-> Append(over.heap,
                                           ObjSpread(over.heap[under.ref],
                                                     over.heap[over.ref])),
                           files |-> Some(Len(over.heap) + 1)]
                 ELSE LET copy == cloneFileMapObject(h, Val(inputFiles))
                      IN  [heap |-> copy.heap, files |-> Some(copy.ref)]
            ELSE IF IsDefined(baseFiles)
            THEN LET copy == cloneFileMapObject(h, Val(baseFiles))
                 IN  [heap |-> copy.heap, files |-> Some(copy.ref)]
            ELSE [heap |-> h, files |-> Undefined]
    IN  IF IsDefined(combined.files)
        THEN [heap |-> deleteFilesFromObject(combined.heap, Val(combined.files),
                                             deleteFiles, 1),
              files |-> combined.files]
        ELSE combined

\* projectVideoSchema.safeParse builds its data anew: the parsed files are
\* a new object with the given entries in their order
safeParseFiles(h, ref) == [heap |-> Append(h, h[ref]), ref |-> Len(h) + 1]

\* the update_video handler on the heap: h is the heap with the request's
\* files object at given, stored the reference in the session's record.
\* loaded is the normalized file map compileProjectBundle builds from
\* parsedInput.files.
updateVideoFiles(h, given, stored, request) ==
    LET cleared == IF Truthy(request.resetProject) THEN Undefined ELSE stored
        base == SelectBase(Coalesce(request.usePreviousProject, TRUE), cleared)
        res == resolveFiles(h, given, base,
                            Coalesce(request.updateMode, "merge"),
                            Coalesce(request.deleteFiles, <<>>))
        parsed == safeParseFiles(res.heap, Val(res.files))
        kept == cloneFileMapObject(parsed.heap, parsed.ref)
    IN  IF ~IsDefined(res.files) \/ Len(res.heap[Val(res.files)]) = 0
        THEN [heap |-> res.heap, stored |-> cleared, rejected |-> TRUE,
              previous |-> cleared, resolvedFiles |-> res.files,
              parsed |-> Undefined, loaded |-> Undefined]
        ELSE [heap |-> kept.heap, stored |-> Some(kept.ref), rejected |-> FALSE,
              previous |-> cleared, resolvedFiles |-> res.files,
              parsed |-> Some(parsed.ref),
              loaded |-> Some(normalizeFileMap(kept.heap[parsed.ref]).files)]

UpdateRequest(files, deleteFiles, updateMode, usePreviousProject, resetProject) ==
    [files |-> files, deleteFiles |-> deleteFiles, updateMode |-> updateMode,
     usePreviousProject |-> usePreviousProject, resetProject |-> resetProject]

Edit(files) == UpdateRequest(Some(files), Undefined, Undefined, Undefined, Undefined)
Removal(deleteFiles) == UpdateRequest(Undefined, Some(deleteFiles), Undefined, Undefined, Undefined)

\* the session's requests: edits of "/a" and "a" with three texts, an edit
\* of "/b", removals, a replacement, a reset and a request that reuses nothing
FileUpdates ==
    { Edit(<<Entry(PathA, GoodText)>>),
      Edit(<<Entry(RawA, ImportsScene)>>),
      Edit(<<Entry(PathA, BrokenText)>>),
      Edit(<<Entry(PathB, GoodText)>>),
      Removal(<<PathA>>),
      Removal(<<RawA>>),
      Removal(<<PathA, PathB>>),
      UpdateRequest(Some(<<Entry(PathB, ImportsScene)>>), Undefined,
                    Some("replace"), Undefined, Undefined),
      UpdateRequest(Some(<<Entry(RawA, GoodText)>>), Undefined, Undefined,
                    Undefined, Some(TRUE)),
      UpdateRequest(Undefined, Some(<<PathA>>), Undefined, Some(FALSE),
                    Undefined) }

UpdateInit ==
    /\ InitStore /\ InitResolveIdle /\ InitImportIdle /\ InitCompileIdle
    /\ InitServerIdle /\ InitWidgetIdle /\ InitPathIdle /\ InitViewIdle
    /\ heap = <<>>
    /\ storedFiles = Undefined
    /\ updates = 0
    /\ lastUpdate = Undefined

\* one update_video call of the session, up to its await
Update(request) ==
    /\ updates < MaxUpdates
    /\ \E given \in { IF IsDefined(request.files)
                      THEN [heap |-> Append(heap, Val(request.files)),
                            ref |-> Some(Len(heap) + 1)]
                      ELSE [heap |-> heap, ref |-> Undefined] } :
       \E out \in { updateVideoFiles(given.heap, given.ref, storedFiles, request) } :
           /\ heap' = out.heap
           /\ storedFiles' = out.stored
           /\ lastUpdate' =
                  Some([request |-> request, before |-> heap,
                        storedBefore |-> storedFiles, given |-> given.ref,
                        previous |-> out.previous,
                        resolvedFiles |-> out.resolvedFiles,
                        rejected |-> out.rejected, parsed |-> out.parsed,
                        loaded |-> out.loaded])
    /\ updates' = updates + 1
    /\ UNCHANGED <<storeVars, resolveVars, importVars, compileVars, serverVars,
                   widgetVars, pathVars, viewVars>>

UpdateNext == \E request \in FileUpdates : Update(request)

UpdateSpec == UpdateInit /\ [][UpdateNext]_vars

----------------------------------------------------------------------------
(* Claims about updates of one session's files (checked under UpdateSpec). *)

Updated == IsDefined(lastUpdate)
LastUpdate == Val(lastUpdate)
\* the object the store's record referred to when the call came in
StoredObjectBefore == LastUpdate.before[Val(LastUpdate.storedBefore)]
RequestedDeletes == Coalesce(LastUpdate.request.deleteFiles, <<>>)
\* the call was accepted: its project was stored and given to the compiler
Accepted == Updated /\ ~LastUpdate.rejected
LoadedFiles == Val(LastUpdate.loaded)

\* C31: resolveProjectInput changes neither its request nor the previous
\* project it is given: every object that existed before the call,
\* the stored record's files among them, has the entries it had, the
\* request's files are as they were given, and a call that is rejected
\* after resolution leaves the record's reference and its files as they were.
C31_ResolveWorksOnCopies ==
    Updated =>
        /\ \A ref \in 1..Len(LastUpdate.before) : heap[ref] = LastUpdate.before[ref]
        /\ IsDefined(LastUpdate.given) =>
               heap[Val(LastUpdate.given)] = Val(LastUpdate.request.files)
        /\ LastUpdate.rejected /\ ~Truthy(LastUpdate.request.resetProject) =>
               /\ storedFiles = LastUpdate.storedBefore
               /\ IsDefined(storedFiles) => heap[Val(storedFiles)] = StoredObjectBefore

\* an update whose deleteFiles removed every file of the stored project was
\* rejected, and the record still has its file
C31_Witness ==
    /\ Updated
    /\ LastUpdate.rejected
    /\ IsDefined(LastUpdate.storedBefore)
    /\ IsDefined(LastUpdate.resolvedFiles)
    /\ RequestedDeletes # <<>>
    /\ heap[Val(LastUpdate.resolvedFiles)] = <<>>
    /\ heap[Val(storedFiles)] # <<>>

\* C32: after a merge-mode update, for every path in the request's files the
\* text the compiler loads at its normalized path is a text the request gave
\* for that path, however the stored project spells the path.
C32_RequestWinsByVirtualPath ==
    /\ Accepted
    /\ IsDefined(LastUpdate.request.files)
    /\ Coalesce(LastUpdate.request.updateMode, "merge") = "merge"
    /\ RequestedDeletes = <<>>
    => LET given == Val(LastUpdate.request.files)
       IN  \A i \in 1..Len(given) :
               /\ normalizeVirtualPath(given[i].path) \in DOMAIN LoadedFiles
               /\ \E j \in 1..Len(given) :
                      /\ normalizeVirtualPath(given[j].path)
                             = normalizeVirtualPath(given[i].path)
                      /\ LoadedFiles[normalizeVirtualPath(given[i].path)]
                             = given[j].contents

\* the paths the request's own files supply, normalized
SuppliedPaths ==
    IF IsDefined(LastUpdate.request.files)
    THEN { normalizeVirtualPath(k) : k \in OwnKeys(Val(LastUpdate.request.files)) }
    ELSE {}

\* C33: after an update whose deleteFiles lists a path that its own files do
\* not supply, neither the compiled nor the stored project has a file whose
\* normalized path is that path normalized.
C33_DeletedPathIsGone ==
    Accepted =>
        \A i \in 1..Len(RequestedDeletes) :
            LET p == normalizeVirtualPath(RequestedDeletes[i])
            IN  p \notin SuppliedPaths =>
                    /\ p \notin DOMAIN LoadedFiles
                    /\ \A k \in OwnKeys(heap[Val(storedFiles)]) :
                           normalizeVirtualPath(k) # p

----------------------------------------------------------------------------
(* The store around failed compiles, rejected requests and requests in     *)
(* flight together (checked under ServerSpec).                             *)

LastRecord == MapGet(sessionProjects, lastEvent.sessionId)
UpdateHandled == HandlerRan /\ lastEvent.tool = "update_video"
\* the project compileAndRespondWithProject stores for a parsed input
StateOf(parsed) == [f \in DOMAIN BaseProject |-> parsed[f]]

\* C34: a request that passes validation is in the store whether its compile
\* succeeds or fails: when the compile of the call handled last has ended,
\* with a bundle or with an error, the session's record has that call's
\* files; and an update_video reads that record as its previous project and
\* merges its files over the record's.
C34_FailedProjectIsStored ==
    /\ (CompileEnded /\ lastEvent.order = handled)
       => /\ IsDefined(LastRecord)
          /\ Val(LastRecord).files = Val(lastEvent.resolvedFiles)
    /\ UpdateHandled
       => lastEvent.previous = MapGet(StoreAfterReset, lastEvent.sessionId)
    /\ ( /\ UpdateHandled /\ lastEvent.suspended
         /\ PlainMerge(lastEvent.rawParams) /\ IsDefined(lastEvent.previous) )
       => Val(lastEvent.stored).files
              = JsSpread(Val(lastEvent.previous).files,
                         Val(lastEvent.rawParams.files))

\* the session's first call stored a text that does not parse and its
\* compile has ended; the update that followed read that project and stored
\* the text again, next to the scene it brought
C34_Witness ==
    /\ UpdateHandled /\ lastEvent.suspended
    /\ lastEvent.order = 2
    /\ \A c \in inflight : c.order = 2
    /\ lastEvent.rawParams = SecondFile
    /\ IsDefined(lastEvent.previous)
    /\ Val(lastEvent.previous).files = (VideoPath :> BrokenText)
    /\ Val(LastRecord).files = (VideoPath :> BrokenText) @@ (SceneTsx :> GoodText)

\* the handler of the last step returned before any compile
RejectedBeforeCompile == HandlerRan /\ ~lastEvent.suspended

\* C35: a request without resetProject that is rejected before compilation
\* leaves the session store exactly as it was: the same ids with the same
\* records in the same order; nothing is stored and no compile is started.
C35_RejectionLeavesStore ==
    (RejectedBeforeCompile /\ ~ResetRequested)
    => /\ sessionProjects = lastEvent.before
       /\ lastEvent.stored = Undefined
       /\ ~LastCallInFlight

\* a request whose file contents are not a string was rejected in the
\* session that is first in a full store
C35_Witness ==
    /\ RejectedBeforeCompile /\ ~ResetRequested
    /\ lastEvent.rawParams = FilesOnly(Some(VideoPath :> NotAString))
    /\ Len(sessionProjects) = MAX_SESSION_PROJECTS
    /\ sessionProjects[1].key = lastEvent.sessionId
    /\ IsDefined(lastEvent.response)

\* C36: the session's record is the project of the request that was handled
\* last, while compiles are pending and after all of them have ended, in
\* whatever order they end; the end of a compile does not write the store;
\* and an update handled while the call before it is still compiling reads
\* the project that call stored.
C36_LastHandledWins ==
    /\ (lastEvent.kind # "none" /\ IsDefined(lastEvent.handledLast.stored))
       => MapGet(sessionProjects, lastEvent.handledLast.sessionId)
              = lastEvent.handledLast.stored
    /\ CompileEnded => sessionProjects = lastEvent.before
    /\ \A c \in inflight :
           ( /\ UpdateHandled /\ ~ResetRequested
             /\ c.order + 1 = lastEvent.order
             /\ c.sessionId = lastEvent.sessionId )
           => lastEvent.previous = Some(StateOf(c.parsed))

\* two accepted calls of one session were in flight together and the one
\* handled first ended last: the record is the other one's project
C36_Witness ==
    /\ CompileEnded
    /\ inflight = {}
    /\ lastEvent.order < lastEvent.handledLast.order
    /\ lastEvent.handledLast.sessionId = lastEvent.sessionId
    /\ IsDefined(lastEvent.handledLast.stored)
    /\ LastRecord = lastEvent.handledLast.stored
    /\ Val(LastRecord).files # Val(lastEvent.resolvedFiles)

CreateHandled == HandlerRan /\ lastEvent.tool = "create_video"

\* the project a create_video request determines by itself: its files, and
\* for every other field its value or the fixed default
RequestAlone(rawParams) ==
    [f \in DOMAIN BaseProject |->
        IF f = "files" THEN Val(rawParams.files)
        ELSE IF IsDefined(rawParams[f]) THEN Val(rawParams[f])
        ELSE FieldDefaults[f]]

\* C40: in the two-tool server create_video stores and compiles the project
\* its request determines alone, whatever the session's record was and
\* whether or not resetProject is set; it reads no previous project.
C40_CreateUsesRequestAlone ==
    (CreateHandled /\ lastEvent.suspended)
    => /\ lastEvent.stored = Some(RequestAlone(lastEvent.rawParams))
       /\ LastRecord = lastEvent.stored
       /\ \E c \in inflight :
              /\ c.order = lastEvent.order
              /\ StateOf(c.parsed) = RequestAlone(lastEvent.rawParams)
       /\ lastEvent.previous = Undefined
       /\ lastEvent.resolvedFiles = Undefined

\* create_video with the scene alone, in a session whose record had the
\* entry file and a width of 640: the new record has the scene alone and
\* the default width
C40_Witness ==
    /\ CreateHandled /\ lastEvent.suspended
    /\ ~ResetRequested
    /\ lastEvent.rawParams = SecondFile
    /\ IsDefined(MapGet(lastEvent.before, lastEvent.sessionId))
    /\ Val(MapGet(lastEvent.before, lastEvent.sessionId)).width = 640
    /\ DOMAIN Val(MapGet(lastEvent.before, lastEvent.sessionId)).files = {VideoPath}
    /\ Val(LastRecord).width = DEFAULT_META.width
    /\ DOMAIN Val(LastRecord).files = {SceneTsx}

----------------------------------------------------------------------------
(* The widget's views and its player metadata (widget.tsx,                 *)
(* RemotionPlayerWidgetInner): what one render and its effects do with     *)
(* what the host gave, and how a calculateMetadata promise settles.        *)

NumericMeta == {"width", "height", "fps", "durationInFrames"}

\* the text of a bundle without runtime imports that does or does not
\* leave exports, and does or does not export a function calculateMetadata
MetadataBundle(hasExports, exportsCalculateMetadata) ==
    [shims |-> {}, hasExports |-> hasExports, defaultIsFunction |-> hasExports,
     calculateMetadata |-> exportsCalculateMetadata]

\* the useMemo around compileBundle: null, or the error of compileBundle, or
\* the component with calculateMetadata when the bundle exports that function
compiledFor(data) ==
    IF ~IsDefined(data) \/ IsDefined(Val(data).compileError) THEN Undefined
    ELSE Some([error |-> compileBundle(Val(data).bundle, Undefined).error,
               calculateMetadata |->
                   /\ ~IsDefined(compileBundle(Val(data).bundle, Undefined).error)
                   /\ Val(data).bundle.calculateMetadata])

\* finalData: null while a call is pending, else what parses
parseFinalData(isPending, videoProject) ==
    IF isPending THEN Undefined ELSE parseVideoProject(videoProject)

\* data = finalData || (isBusy ? prevRef.current : null)
selectData(finalData, isBusy, prev) ==
    IF IsDefined(finalData) THEN finalData
    ELSE IF isBusy THEN prev
    ELSE Undefined

\* isLoading, !hasData, else the player
ChooseView(data, isBusy) ==
    IF ~IsDefined(data) /\ isBusy THEN "loading"
    ELSE IF ~IsDefined(data) THEN "empty"
    ELSE "player"

\* data?.compileError ?? the error of compileBundle
compileErrorOf(data, comp) ==
    IF IsDefined(data) /\ IsDefined(Val(data).compileError)
    THEN Val(data).compileError
    ELSE IF IsDefined(comp) THEN Val(comp).error
    ELSE Undefined

\* the UpdatingOverlay: in the header when fullscreen, else over the Player,
\* which PlayerView renders only without a compile error
showsOverlay(view, isBusy, isFullscreen, compileError) ==
    /\ view = "player"
    /\ isBusy
    /\ (isFullscreen \/ ~IsDefined(compileError))

\* mutant of RememberParsed: the effect leaves prevRef.current alone
ForgetParsed(prev, finalData) == prev

\* useEffect: if (finalData) prevRef.current = finalData
RememberParsed(prev, finalData) ==
    IF IsDefined(finalData) THEN finalData ELSE prev

\* the dependencies of the effect that resets resolvedMeta
MetaDeps(data) ==
    IF IsDefined(data)
    THEN Some([bundle |-> Val(data).bundle, meta |-> Val(data).meta])
    ELSE Undefined

\* the fallback with each of the four numbers the overrides give as a
\* positive finite number
readMetadataOverrides(overrides, fallback) ==
    [f \in DOMAIN fallback |->
        IF f \in NumericMeta /\ f \in DOMAIN overrides
        THEN positiveNumberOrFallback(overrides[f], fallback[f])
        ELSE fallback[f]]

\* meta = resolvedMeta ?? data?.meta ?? the defaults
playerMeta(current, data) ==
    IF IsDefined(current) THEN Val(current)
    ELSE IF IsDefined(data) THEN Val(data).meta
    ELSE DEFAULT_META

NoOrigin == [f \in NumericMeta |-> Undefined]

\* controller.abort() of every promise not yet settled
AbortAll(pending) == { [c EXCEPT !.aborted = TRUE] : c \in pending }

OtherMeta ==
    Some([title |-> "Two", compositionId |-> "Main", width |-> 640,
          height |-> 360, fps |-> 24, durationInFrames |-> 90])

\* the videoProject texts of the host: two projects that differ in their
\* inputProps alone, with calculateMetadata; a project of another bundle
\* and meta; one with a compileError; one whose bundle leaves no exports;
\* a text that does not parse; none
ViewProjects ==
    { ProjectJson(WidgetMeta, BundleValue(TRUE, FALSE, MetadataBundle(TRUE, TRUE)),
                  PropsValue(TRUE, EmptyMap), PropsValue(TRUE, ("a" :> 1)), ""),
      ProjectJson(WidgetMeta, BundleValue(TRUE, FALSE, MetadataBundle(TRUE, TRUE)),
                  PropsValue(TRUE, EmptyMap), PropsValue(TRUE, ("a" :> 2)), ""),
      ProjectJson(OtherMeta, BundleValue(TRUE, FALSE, MetadataBundle(TRUE, FALSE)),
                  PropsValue(TRUE, EmptyMap), PropsValue(TRUE, EmptyMap), ""),
      ProjectJson(OtherMeta, BundleValue(TRUE, FALSE, MetadataBundle(TRUE, FALSE)),
                  PropsValue(TRUE, EmptyMap), PropsValue(TRUE, EmptyMap),
                  "Project compilation error"),
      ProjectJson(OtherMeta, BundleValue(TRUE, FALSE, MetadataBundle(FALSE, FALSE)),
                  PropsValue(TRUE, EmptyMap), PropsValue(TRUE, EmptyMap), ""),
      Some(JsonText("malformed", EmptyMap)),
      Undefined }

\* what calculateMetadata resolves to: a duration; nothing; a duration that
\* is not positive; a value that is not an object
MetadataResults ==
    { PropsValue(TRUE, ("durationInFrames" :> 300)),
      PropsValue(TRUE, EmptyMap),
      PropsValue(TRUE, ("durationInFrames" :> 0)),
      PropsValue(FALSE, EmptyMap) }

ViewInit ==
    /\ InitStore
    /\ InitResolveIdle
    /\ InitImportIdle
    /\ InitCompileIdle
    /\ InitServerIdle /\ InitWidgetIdle /\ InitPathIdle /\ InitObjectsIdle
    /\ host = Undefined
    /\ prevRef = Undefined
    /\ rendered = Undefined
    /\ resolvedMeta = Undefined
    /\ calculations = {}
    /\ metaOrigin = Undefined

\* the widget has rendered at least once
Mounted == IsDefined(rendered)

\* finalData is a new object: its useMemo ran again and parsed a project
Reparsed(finalData, isPending, videoProject) ==
    /\ IsDefined(finalData)
    /\ \/ isPending # Val(host).isPending
       \/ videoProject # Val(host).videoProject

\* the host's values change and the widget renders, effects included
RenderView(isPending, isStreaming, isFullscreen, videoProject) ==
    \E isBusy \in { isPending \/ isStreaming } :
    \E finalData \in { parseFinalData(isPending, videoProject) } :
    \E data \in { selectData(finalData, isBusy, prevRef) } :
    \E comp \in { compiledFor(data) } :
    \E view \in { ChooseView(data, isBusy) } :
    \E dataChanged \in { \/ ~Mounted
                         \/ data # Val(rendered).data
                         \/ Reparsed(finalData, isPending, videoProject) } :
    \E metaChanged \in { \/ ~Mounted
                         \/ MetaDeps(data) # MetaDeps(Val(rendered).data) } :
        /\ host' = Some([isPending |-> isPending, isStreaming |-> isStreaming,
                         isFullscreen |-> isFullscreen,
                         videoProject |-> videoProject])
        /\ prevRef' = RememberParsed(prevRef, finalData)
        /\ rendered' =
               Some([view |-> view,
                     data |-> data,
                     overlay |-> showsOverlay(view, isBusy, isFullscreen,
                                              compileErrorOf(data, comp)),
                     parsedBefore |-> IF Mounted THEN Val(rendered).parsed
                                      ELSE Undefined,
                     parsed |-> IF IsDefined(finalData) THEN finalData
                                ELSE IF Mounted THEN Val(rendered).parsed
                                ELSE Undefined])
        /\ resolvedMeta' =
               IF ~metaChanged THEN resolvedMeta
               ELSE IF IsDefined(data) THEN Some(Val(data).meta)
               ELSE Undefined
        /\ metaOrigin' = IF metaChanged THEN NoOrigin ELSE metaOrigin
        /\ calculations' =
               IF ~dataChanged THEN calculations
               ELSE AbortAll(calculations) \cup
                    (IF /\ IsDefined(data)
                        /\ IsDefined(comp)
                        /\ ~IsDefined(Val(comp).error)
                        /\ Val(comp).calculateMetadata
                     THEN { [data |-> Val(data), aborted |-> FALSE] }
                     ELSE {})
        /\ UNCHANGED <<storeVars, resolveVars, importVars, compileVars,
                       serverVars, widgetVars, pathVars, objectVars>>

\* a calculateMetadata promise resolves with a value: dropped when aborted
\* or not an object, else laid over the current resolvedMeta
ResolveMetadata(c, value) ==
    /\ c \in calculations
    /\ calculations' = calculations \ {c}
    /\ IF c.aborted \/ ~value.isRecord
       THEN UNCHANGED <<resolvedMeta, metaOrigin>>
       ELSE \E fallback \in { IF IsDefined(resolvedMeta) THEN Val(resolvedMeta)
                              ELSE c.data.meta } :
            /\ resolvedMeta' =
                   Some(readMetadataOverrides(value.members, fallback))
            /\ metaOrigin' =
                   [f \in NumericMeta |->
                       IF /\ f \in DOMAIN value.members
                          /\ readMetadataOverrides(value.members, fallback)[f]
                               = value.members[f]
                       THEN Some(c.data)
                       ELSE metaOrigin[f]]
    /\ UNCHANGED <<host, prevRef, rendered>>
    /\ UNCHANGED <<storeVars, resolveVars, importVars, compileVars,
                   serverVars, widgetVars, pathVars, objectVars>>

\* a calculateMetadata promise rejects: nothing of the views changes
RejectMetadata(c) ==
    /\ c \in calculations
    /\ calculations' = calculations \ {c}
    /\ UNCHANGED <<host, prevRef, rendered, resolvedMeta, metaOrigin>>
    /\ UNCHANGED <<storeVars, resolveVars, importVars, compileVars,
                   serverVars, widgetVars, pathVars, objectVars>>

ViewNext ==
    \/ \E isPending \in BOOLEAN, isStreaming \in BOOLEAN,
          isFullscreen \in BOOLEAN, videoProject \in ViewProjects :
           RenderView(isPending, isStreaming, isFullscreen, videoProject)
    \/ \E c \in calculations, value \in MetadataResults :
           ResolveMetadata(c, value)
    \/ \E c \in calculations : RejectMetadata(c)

ViewSpec == ViewInit /\ [][ViewNext]_vars

----------------------------------------------------------------------------
(* Claims about the widget's views (checked under ViewSpec).               *)

HostBusy == Val(host).isPending \/ Val(host).isStreaming

\* what the host's values parse to at the last render
HostParsed == parseFinalData(Val(host).isPending, Val(host).videoProject)

\* the widget's project data: what the host's values parse to, else, while
\* a call is pending or streaming, the project that parsed last before
ProjectData ==
    IF IsDefined(HostParsed) THEN HostParsed
    ELSE IF HostBusy THEN Val(rendered).parsedBefore
    ELSE Undefined

\* the project data has no compileError and its bundle compiles
Plays(data) ==
    /\ IsDefined(data)
    /\ ~IsDefined(Val(data).compileError)
    /\ ~IsDefined(compileBundle(Val(data).bundle, Undefined).error)

\* one of the three views by project data and busyness, the last parsed
\* project kept while busy
OneOfThreeViews ==
    /\ Val(rendered).view \in {"loading", "empty", "player"}
    /\ Val(rendered).data = ProjectData
    /\ Val(rendered).view = "loading" <=> (~IsDefined(ProjectData) /\ HostBusy)
    /\ Val(rendered).view = "empty" <=> (~IsDefined(ProjectData) /\ ~HostBusy)
    /\ Val(rendered).view = "player" <=> IsDefined(ProjectData)
    /\ (HostBusy /\ IsDefined(Val(rendered).parsedBefore))
       => Val(rendered).view = "player"

PlayerMeta == playerMeta(resolvedMeta, Val(rendered).data)

\* C38: the metadata given to the player is the current project's server
\* meta, overridden only by calculateMetadata results computed for the
\* current project, never by a result computed for an earlier project.
C38_MetadataOfCurrentProject ==
    (Mounted /\ IsDefined(Val(rendered).data))
    => \A f \in NumericMeta :
           IF IsDefined(metaOrigin[f])
           THEN Val(metaOrigin[f]) = Val(Val(rendered).data)
           ELSE PlayerMeta[f] = Val(Val(rendered).data).meta[f]

====
